---- MODULE Spec2Model ----
(***************************************************************************)
(* FlowDay (MyPlanner): the learning algorithm (Algorithm), the IndexedDB  *)
(* stores it reads and writes (DB) and the handlers that feed it (App).    *)
(*                                                                         *)
(* Representation of JavaScript values:                                    *)
(*   - an "HH:MM" string is the tuple of its four digits <<h,h,m,m>>; a    *)
(*     missing (undefined / empty) time is <<>>.  String comparison is the *)
(*     lexicographic comparison of the digits.                             *)
(*   - a "YYYY-MM-DD" date is its day number (an integer); day numbers     *)
(*     that are multiples of 7 are Sundays.  String comparison of ISO      *)
(*     dates is the comparison of the day numbers.                         *)
(*   - a non-integer number (an average, a confidence, a priority, a       *)
(*     percentage) is an exact fraction <<num, den>> with den > 0.         *)
(*   - a nullable number is <<>> (null) or <<n>>.                          *)
(*   - a missing or zero duration (both falsy) is 0.                       *)
(*   - pattern and sequence ids are strings built by concatenation, as in  *)
(*     the template literals of the source.                                *)
(***************************************************************************)
EXTENDS Integers, Sequences, FiniteSets, TLC

VARIABLES
    tasks,            \* DB store 'tasks': set of task records
    history,          \* DB store 'history': sequence of entries, in key order
    schedule,         \* DB store 'schedule': sequence of scheduled instances
    patterns,         \* DB store 'patterns': function id -> pattern record
    specialPeriods,   \* DB setting 'specialPeriods': sequence of periods
    periodCategories, \* DB setting 'periodCategories': sequence of categories
    pc,               \* per caller: where its refreshInsights()/analyze() stands
    existing,         \* per caller: existingPatterns, read at line 19
    computed,         \* per caller: allPatterns (lines 87-93)
    cursor,           \* per caller: number of savePattern calls completed
    pool,             \* per caller: the insights array before the sort
    result,           \* per caller: the value analyze() returned last
    started,          \* ghost, per caller: the pattern store when analyze() read it
    prior,            \* ghost: outcome of the previous analyze(), if nothing
                      \*        was written between its return and this call
    touched,          \* ghost: a store was written by a handler since the last
                      \*        analyze() returned, or none has returned yet
    suggestions,      \* the value generateRoutineSuggestion() returned last
    segments,         \* the value separateHistoryByPeriods() returned last
    lastSaved,        \* ghost: per pattern id, the record the latest savePattern
                      \*        call on that id was given
    marked,           \* scheduled.status of the instances a handler has updated
    modal,            \* selectedScheduledTask and the state of the two buttons
    held,             \* per caller: the instance and the entry of its handler
    recorded          \* ghost: per instance, the history entries written for it

vars == <<tasks, history, schedule, patterns, specialPeriods, periodCategories,
          pc, existing, computed, cursor, pool, result, started, prior, touched,
          suggestions, segments, lastSaved, marked, modal, held, recorded>>

----------------------------------------------------------------------------
(* Generic helpers for arrays and objects                                  *)

Range(s) == {s[i] : i \in DOMAIN s}

RECURSIVE SumSeq(_)
SumSeq(s) == IF s = <<>> THEN 0 ELSE Head(s) + SumSeq(Tail(s))

RECURSIVE Flatten(_)
Flatten(ss) == IF ss = <<>> THEN <<>> ELSE Head(ss) \o Flatten(Tail(ss))

Take(s, n) == SubSeq(s, 1, IF Len(s) < n THEN Len(s) ELSE n)

\* The keys of an object filled in array order: string keys come back from
\* Object.entries in insertion order.
KeysInOrder(s) ==
    LET firsts == SelectSeq([i \in DOMAIN s |-> i],
                            LAMBDA i : \A j \in 1..(i - 1) : s[j] # s[i])
    IN  [k \in DOMAIN firsts |-> s[firsts[k]]]

\* Integer-like keys come back from Object.entries in ascending order.
RECURSIVE AscendingKeys(_)
AscendingKeys(S) ==
    IF S = {} THEN <<>>
    ELSE LET m == CHOOSE x \in S : \A y \in S : x <= y
         IN  <<m>> \o AscendingKeys(S \ {m})

\* Array.prototype.sort is stable: with before[i][j] standing for
\* "compare(s[i], s[j]) < 0", element i ends up after every element that
\* must precede it and after every earlier element it does not have to
\* precede.
SortStable(s, before) ==
    LET pos == [i \in DOMAIN s |->
                   1 + Cardinality({j \in DOMAIN s :
                           \/ before[j][i]
                           \/ j < i /\ ~before[i][j]})]
    IN  [k \in DOMAIN s |-> s[CHOOSE i \in DOMAIN s : pos[i] = k]]

\* Exact fractions <<num, den>>, den > 0
FracLess(a, b) == a[1] * b[2] < b[1] * a[2]
FracEq(a, b)   == a[1] * b[2] = b[1] * a[2]
FracLeq(a, b)  == a[1] * b[2] <= b[1] * a[2]
FracMul(a, k)  == <<a[1] * k, a[2]>>

\* Math.round(num/den): the nearest integer, halves going up
MathRound(num, den) == (2 * num + den) \div (2 * den)

\* Math.abs
Abs(x) == IF x < 0 THEN 0 - x ELSE x

\* String comparison of two "HH:MM" strings ('' before everything)
RECURSIVE LexLess(_, _)
LexLess(a, b) ==
    IF b = <<>> THEN FALSE
    ELSE IF a = <<>> THEN TRUE
    ELSE IF Head(a) # Head(b) THEN Head(a) < Head(b)
    ELSE LexLess(Tail(a), Tail(b))

----------------------------------------------------------------------------
(* Time utilities (Algorithm helper functions)                             *)

NoTime == <<>>

\* n.toString().padStart(2, '0') for 0 <= n < 100
PadStart2(n) == <<n \div 10, n % 10>>

\* timeToMinutes: a missing time counts as 0 minutes
timeToMinutes(time) ==
    IF time = NoTime THEN 0
    ELSE (time[1] * 10 + time[2]) * 60 + (time[3] * 10 + time[4])

\* minutesToTime(num/den) for a number of minutes num/den >= 0:
\*   hours = Math.floor(minutes / 60) % 24
\*   mins  = Math.round(minutes % 60)
minutesToTime(num, den) ==
    LET hours == (num \div (60 * den)) % 24
        mins  == MathRound(num % (60 * den), den)
    IN  PadStart2(hours) \o PadStart2(mins)

addMinutesToTime(time, minutes) == minutesToTime(timeToMinutes(time) + minutes, 1)

\* standardDeviation: the source returns the square root of the mean squared
\* deviation; this is that mean squared deviation, exactly:
\*   (n * sum(v^2) - sum(v)^2) / n^2.
\* The source only ever compares the root with a constant (StdDevBelow).
standardDeviation(values) ==
    IF Len(values) < 2 THEN <<0, 1>>
    ELSE LET n  == Len(values)
             s  == SumSeq(values)
             s2 == SumSeq([i \in DOMAIN values |-> values[i] * values[i]])
         IN  <<n * s2 - s * s, n * n>>

\* stdDev <= k
StdDevAtMost(sd, k) == sd[1] <= k * k * sd[2]

\* stdDev < k, for k >= 0
StdDevBelow(sd, k) == sd[1] < k * k * sd[2]

\* new Date(date).getDay(): day numbers that are multiples of 7 are Sundays
\* (the shift a time zone west of UTC gives to a date-only string is left out)
getDay(date) == date % 7

----------------------------------------------------------------------------
(* Lookups in the task catalog: tasks.find(t => t.id === taskId)           *)

HasTask(ts, taskId)  == \E t \in ts : t.id = taskId
FindTask(ts, taskId) == CHOOSE t \in ts : t.id = taskId

Completed(h) == SelectSeq(h, LAMBDA e : e.status = "completed")

\* The ratio without its cap
ConfidenceUncapped(n, k) == <<n, k>>

\* Math.min(n / k, 1)
Confidence(n, k) == IF n >= k THEN <<1, 1>> ELSE <<n, k>>

----------------------------------------------------------------------------
(* Period segmenter                                                        *)

\* The period search that keeps the last period containing the date
FoundPeriodLast(entryDate, periods) ==
    LET hits == {i \in DOMAIN periods :
                    entryDate >= periods[i].startDate /\ entryDate <= periods[i].endDate}
    IN  IF hits = {} THEN 0 ELSE CHOOSE i \in hits : \A j \in hits : i >= j

\* The period test with the last day of a period left out
FoundPeriodBeforeEnd(entryDate, periods) ==
    LET hits == {i \in DOMAIN periods :
                    entryDate >= periods[i].startDate /\ entryDate < periods[i].endDate}
    IN  IF hits = {} THEN 0 ELSE CHOOSE i \in hits : \A j \in hits : i <= j

\* The inner loop of separateHistoryByPeriods: the first period, in list
\* order, that contains the date; 0 when none does.
FoundPeriod(entryDate, periods) ==
    LET hits == {i \in DOMAIN periods :
                    entryDate >= periods[i].startDate /\ entryDate <= periods[i].endDate}
    IN  IF hits = {} THEN 0 ELSE CHOOSE i \in hits : \A j \in hits : i <= j

separateHistoryByPeriods(h, periods, categories) ==
    LET normalHistory == SelectSeq(h, LAMBDA e : FoundPeriod(e.date, periods) = 0)
        periodHistory == SelectSeq(h, LAMBDA e : FoundPeriod(e.date, periods) # 0)
        CategoryOf(e) == periods[FoundPeriod(e.date, periods)].categoryId
        keys          == KeysInOrder([i \in DOMAIN periodHistory |->
                                          CategoryOf(periodHistory[i])])
    IN  [normalHistory   |-> normalHistory,
         periodHistory   |-> periodHistory,
         \* Object.entries(periodBreakdown), in insertion order
         periodBreakdown |-> [k \in DOMAIN keys |->
              [categoryId |-> keys[k],
               entries    |-> SelectSeq(periodHistory,
                                        LAMBDA e : CategoryOf(e) = keys[k])]]]

----------------------------------------------------------------------------
(* Time-of-day analyzer                                                    *)

\* The time patterns with three samples asked of a weekday
TimePatternsOfTaskThreePerDay(taskId, times, ts) ==
    IF Len(times) < 3 \/ ~HasTask(ts, taskId) THEN <<>>
    ELSE
    LET task        == FindTask(ts, taskId)
        timeMinutes == [i \in DOMAIN times |-> timeToMinutes(times[i].time)]
        stdDev      == standardDeviation(timeMinutes)
        general     ==
            IF StdDevBelow(stdDev, 60)
            THEN <<[id          |-> "time_" \o taskId,
                    type        |-> "time",
                    taskId      |-> taskId,
                    taskName    |-> task.name,
                    averageTime |-> minutesToTime(SumSeq(timeMinutes), Len(timeMinutes)),
                    variance    |-> stdDev,
                    sampleSize  |-> Len(times),
                    confidence  |-> Confidence(Len(times), 10)]>>
            ELSE <<>>
        days        == AscendingKeys({times[i].dayOfWeek : i \in DOMAIN times})
        DayPattern(day) ==
            LET dayTimes   == SelectSeq(times, LAMBDA t : t.dayOfWeek = day)
                dayMinutes == [i \in DOMAIN dayTimes |-> timeToMinutes(dayTimes[i].time)]
                dayStdDev  == standardDeviation(dayMinutes)
            IN  IF Len(dayTimes) >= 3 /\ StdDevBelow(dayStdDev, 45)
                THEN <<[id          |-> "time_" \o taskId \o "_day" \o ToString(day),
                        type        |-> "time_day",
                        taskId      |-> taskId,
                        taskName    |-> task.name,
                        dayOfWeek   |-> day,
                        averageTime |-> minutesToTime(SumSeq(dayMinutes), Len(dayMinutes)),
                        variance    |-> dayStdDev,
                        sampleSize  |-> Len(dayTimes),
                        confidence  |-> Confidence(Len(dayTimes), 5)]>>
                ELSE <<>>
    IN  general \o Flatten([k \in DOMAIN days |-> DayPattern(days[k])])

\* The patterns pushed for one key of taskTimeMap (one pass of the loop at
\* lines 165-213); times is the array of {time, dayOfWeek} of the task.
TimePatternsOfTask(taskId, times, ts) ==
    IF Len(times) < 3 \/ ~HasTask(ts, taskId) THEN <<>>
    ELSE
    LET task        == FindTask(ts, taskId)
        timeMinutes == [i \in DOMAIN times |-> timeToMinutes(times[i].time)]
        stdDev      == standardDeviation(timeMinutes)
        general     ==
            IF StdDevBelow(stdDev, 60)
            THEN <<[id          |-> "time_" \o taskId,
                    type        |-> "time",
                    taskId      |-> taskId,
                    taskName    |-> task.name,
                    averageTime |-> minutesToTime(SumSeq(timeMinutes), Len(timeMinutes)),
                    variance    |-> stdDev,
                    sampleSize  |-> Len(times),
                    confidence  |-> Confidence(Len(times), 10)]>>
            ELSE <<>>
        days        == AscendingKeys({times[i].dayOfWeek : i \in DOMAIN times})
        DayPattern(day) ==
            LET dayTimes   == SelectSeq(times, LAMBDA t : t.dayOfWeek = day)
                dayMinutes == [i \in DOMAIN dayTimes |-> timeToMinutes(dayTimes[i].time)]
                dayStdDev  == standardDeviation(dayMinutes)
            IN  IF Len(dayTimes) >= 2 /\ StdDevBelow(dayStdDev, 45)
                THEN <<[id          |-> "time_" \o taskId \o "_day" \o ToString(day),
                        type        |-> "time_day",
                        taskId      |-> taskId,
                        taskName    |-> task.name,
                        dayOfWeek   |-> day,
                        averageTime |-> minutesToTime(SumSeq(dayMinutes), Len(dayMinutes)),
                        variance    |-> dayStdDev,
                        sampleSize  |-> Len(dayTimes),
                        confidence  |-> Confidence(Len(dayTimes), 5)]>>
                ELSE <<>>
    IN  general \o Flatten([k \in DOMAIN days |-> DayPattern(days[k])])

analyzeTimePatterns(h, ts) ==
    LET done  == Completed(h)
        keys  == KeysInOrder([i \in DOMAIN done |-> done[i].taskId])
        TimesOf(taskId) ==
            LET mine == SelectSeq(done, LAMBDA e : e.taskId = taskId)
            IN  [i \in DOMAIN mine |-> [time      |-> mine[i].startTime,
                                        dayOfWeek |-> getDay(mine[i].date)]]
    IN  Flatten([k \in DOMAIN keys |-> TimePatternsOfTask(keys[k], TimesOf(keys[k]), ts)])

----------------------------------------------------------------------------
(* Duration analyzer                                                       *)

\* One pass of the loop at lines 237-260; durations is the array of
\* {planned, actual} of the task.  Averages are sums over the sample size.
DurationPatternOfTask(taskId, durations, ts) ==
    IF Len(durations) < 3 \/ ~HasTask(ts, taskId) THEN <<>>
    ELSE
    LET n          == Len(durations)
        actualSum  == SumSeq([i \in DOMAIN durations |-> durations[i].actual])
        plannedSum == SumSeq([i \in DOMAIN durations |-> durations[i].planned])
    IN  <<[id                |-> "duration_" \o taskId,
           type              |-> "duration",
           taskId            |-> taskId,
           taskName          |-> FindTask(ts, taskId).name,
           averageActual     |-> MathRound(actualSum, n),
           averagePlanned    |-> MathRound(plannedSum, n),
           difference        |-> MathRound(actualSum - plannedSum, n),
           \* (difference / plannedAvg) * 100
           percentDifference |-> MathRound(100 * (actualSum - plannedSum), plannedSum),
           sampleSize        |-> n,
           confidence        |-> Confidence(n, 10)]>>

analyzeDurationPatterns(h, ts) ==
    LET kept == SelectSeq(h, LAMBDA e : e.status = "completed" /\ e.actualDuration # 0)
        keys == KeysInOrder([i \in DOMAIN kept |-> kept[i].taskId])
        DurationsOf(taskId) ==
            LET mine == SelectSeq(kept, LAMBDA e : e.taskId = taskId)
            IN  [i \in DOMAIN mine |-> [planned |-> mine[i].plannedDuration,
                                        actual  |-> mine[i].actualDuration]]
    IN  Flatten([k \in DOMAIN keys |->
                    DurationPatternOfTask(keys[k], DurationsOf(keys[k]), ts)])

----------------------------------------------------------------------------
(* Frequency analyzer                                                      *)

MinOf(S) == CHOOSE x \in S : \A y \in S : x <= y
MaxOf(S) == CHOOSE x \in S : \A y \in S : x >= y

\* Math.ceil((maxDate - minDate) / one day) || 1
totalDays(h) ==
    LET dates == {h[i].date : i \in DOMAIN h}
        span  == MaxOf(dates) - MinOf(dates)
    IN  IF span = 0 THEN 1 ELSE span

\* The frequency pattern of a task that is not looked up in the catalog
FrequencyPatternOfTaskUnchecked(taskId, mine, days, ts) ==
    LET count    == Len(mine)
        weekdays == AscendingKeys({getDay(mine[i].date) : i \in DOMAIN mine})
        CountOn(day) == Len(SelectSeq(mine, LAMBDA e : getDay(e.date) = day))
        ranked   == SortStable(weekdays,
                               [i \in DOMAIN weekdays |-> [j \in DOMAIN weekdays |->
                                   CountOn(weekdays[i]) > CountOn(weekdays[j])]])
        top      == Take(ranked, 3)
    IN  <<[id               |-> "frequency_" \o taskId,
           type             |-> "frequency",
           taskId           |-> taskId,
           taskName         |-> IF HasTask(ts, taskId) THEN FindTask(ts, taskId).name ELSE "",
           totalOccurrences |-> count,
           uniqueDays       |-> Cardinality({mine[i].date : i \in DOMAIN mine}),
           \* Math.round(count / (totalDays / 7) * 10) / 10
           timesPerWeek     |-> <<MathRound(70 * count, days), 10>>,
           preferredDays    |-> [k \in DOMAIN top |->
                                    [day        |-> top[k],
                                     count      |-> CountOn(top[k]),
                                     percentage |-> <<100 * CountOn(top[k]), count>>]],
           sampleSize       |-> count,
           confidence       |-> Confidence(count, 15)]>>

\* One pass of the loop at lines 301-329; mine is the completed entries of
\* the task, days the span of the whole history.
FrequencyPatternOfTask(taskId, mine, days, ts) ==
    IF ~HasTask(ts, taskId) THEN <<>>
    ELSE
    LET count    == Len(mine)
        weekdays == AscendingKeys({getDay(mine[i].date) : i \in DOMAIN mine})
        CountOn(day) == Len(SelectSeq(mine, LAMBDA e : getDay(e.date) = day))
        ranked   == SortStable(weekdays,
                               [i \in DOMAIN weekdays |-> [j \in DOMAIN weekdays |->
                                   CountOn(weekdays[i]) > CountOn(weekdays[j])]])
        top      == Take(ranked, 3)
    IN  <<[id               |-> "frequency_" \o taskId,
           type             |-> "frequency",
           taskId           |-> taskId,
           taskName         |-> FindTask(ts, taskId).name,
           totalOccurrences |-> count,
           uniqueDays       |-> Cardinality({mine[i].date : i \in DOMAIN mine}),
           \* Math.round(count / (totalDays / 7) * 10) / 10
           timesPerWeek     |-> <<MathRound(70 * count, days), 10>>,
           preferredDays    |-> [k \in DOMAIN top |->
                                    [day        |-> top[k],
                                     count      |-> CountOn(top[k]),
                                     percentage |-> <<100 * CountOn(top[k]), count>>]],
           sampleSize       |-> count,
           confidence       |-> Confidence(count, 15)]>>

analyzeFrequencyPatterns(h, ts) ==
    IF Len(h) < 2 THEN <<>>
    ELSE
    LET done == Completed(h)
        keys == KeysInOrder([i \in DOMAIN done |-> done[i].taskId])
    IN  Flatten([k \in DOMAIN keys |->
            FrequencyPatternOfTask(keys[k],
                                   SelectSeq(done, LAMBDA e : e.taskId = keys[k]),
                                   totalDays(h), ts)])

----------------------------------------------------------------------------
(* Sequence analyzer                                                       *)

\* The walk over every entry, the skipped ones too
sortedHistoryWithSkipped(h) ==
    SortStable(h,
               [i \in DOMAIN h |-> [j \in DOMAIN h |->
                   \/ h[i].date < h[j].date
                   \/ /\ h[i].date = h[j].date
                      /\ LexLess(h[i].startTime, h[j].startTime)]])

\* Completed entries ordered by date, then by start time ('' when missing)
sortedHistory(h) ==
    LET done == Completed(h)
    IN  SortStable(done,
                   [i \in DOMAIN done |-> [j \in DOMAIN done |->
                       \/ done[i].date < done[j].date
                       \/ /\ done[i].date = done[j].date
                          /\ LexLess(done[i].startTime, done[j].startTime)]])

\* The same-day consecutive pairs of the walk at lines 351-374, in order,
\* each with its sequenceMap key and the gap it adds to avgGap (<<>>: none).
Transitions(h) ==
    LET sorted == sortedHistory(h)
        idx    == SelectSeq([i \in 1..Len(sorted) |-> i],
                            LAMBDA i : i > 1 /\ sorted[i - 1].date = sorted[i].date)
        Gap(last, entry) ==
            IF last.endTime # NoTime /\ entry.startTime # NoTime
            THEN LET gap == timeToMinutes(entry.startTime) - timeToMinutes(last.endTime)
                 IN  IF gap >= 0 /\ gap < 240 THEN <<gap>> ELSE <<>>
            ELSE <<>>
    IN  [k \in DOMAIN idx |->
            [key        |-> sorted[idx[k] - 1].taskId \o "_" \o sorted[idx[k]].taskId,
             fromTaskId |-> sorted[idx[k] - 1].taskId,
             toTaskId   |-> sorted[idx[k]].taskId,
             gap        |-> Gap(sorted[idx[k] - 1], sorted[idx[k]])]]

\* One pass of the loop at lines 376-399 over the entry of sequenceMap with
\* this key: from/to are those of the pair that created the entry.
SequencePatternOfKey(key, trans, ts) ==
    LET mine  == SelectSeq(trans, LAMBDA t : t.key = key)
        first == mine[1]
        count == Len(mine)
        gaps  == Flatten([i \in DOMAIN mine |-> mine[i].gap])
    IN  IF count < 3 \/ ~HasTask(ts, first.fromTaskId) \/ ~HasTask(ts, first.toTaskId)
        THEN <<>>
        ELSE <<[id           |-> "sequence_" \o key,
                type         |-> "sequence",
                fromTaskId   |-> first.fromTaskId,
                fromTaskName |-> FindTask(ts, first.fromTaskId).name,
                toTaskId     |-> first.toTaskId,
                toTaskName   |-> FindTask(ts, first.toTaskId).name,
                count        |-> count,
                \* avgGap ? Math.round(avgGap) : null, avgGap being null
                \* without gaps and falsy when the gaps sum to 0
                averageGap   |-> IF gaps = <<>> \/ SumSeq(gaps) = 0 THEN <<>>
                                 ELSE <<MathRound(SumSeq(gaps), Len(gaps))>>,
                sampleSize   |-> count,
                confidence   |-> Confidence(count, 10)]>>

\* The first twenty in the order the transitions were first seen
analyzeSequencePatternsUnsorted(h, ts) ==
    LET trans == Transitions(h)
        keys  == KeysInOrder([i \in DOMAIN trans |-> trans[i].key])
        found == Flatten([k \in DOMAIN keys |-> SequencePatternOfKey(keys[k], trans, ts)])
    IN  Take(found, 20)

\* Lines 376-402: the entries of sequenceMap that qualify, by count from the
\* highest, cut to twenty
analyzeSequencePatterns(h, ts) ==
    LET trans == Transitions(h)
        keys  == KeysInOrder([i \in DOMAIN trans |-> trans[i].key])
        found == Flatten([k \in DOMAIN keys |-> SequencePatternOfKey(keys[k], trans, ts)])
    IN  Take(SortStable(found,
                        [i \in DOMAIN found |-> [j \in DOMAIN found |->
                            found[i].count > found[j].count]]), 20)

----------------------------------------------------------------------------
(* Completion-rate analyzer                                                *)

\* parseInt(startTime.split(':')[0])
HourOf(time) == time[1] * 10 + time[2]

\* taskStats[taskId] of analyzeCompletionPatterns; byHour and byDay list
\* their buckets in ascending key order, as Object.entries returns them.
CompletionStatsOfTask(taskId, h) ==
    LET mine    == SelectSeq(h, LAMBDA e : e.taskId = taskId)
        timed   == SelectSeq(mine, LAMBDA e : e.startTime # NoTime)
        N(s, st) == Len(SelectSeq(s, LAMBDA e : e.status = st))
        hours   == AscendingKeys({HourOf(timed[i].startTime) : i \in DOMAIN timed})
        days    == AscendingKeys({getDay(mine[i].date) : i \in DOMAIN mine})
        InHour(x) == SelectSeq(timed, LAMBDA e : HourOf(e.startTime) = x)
        OnDay(d)  == SelectSeq(mine, LAMBDA e : getDay(e.date) = d)
    IN  [taskId    |-> taskId,
         completed |-> N(mine, "completed"),
         skipped   |-> N(mine, "skipped"),
         byHour    |-> [k \in DOMAIN hours |->
                           [key       |-> hours[k],
                            completed |-> N(InHour(hours[k]), "completed"),
                            skipped   |-> N(InHour(hours[k]), "skipped")]],
         byDay     |-> [k \in DOMAIN days |->
                           [key       |-> days[k],
                            completed |-> N(OnDay(days[k]), "completed"),
                            skipped   |-> N(OnDay(days[k]), "skipped")]]]

\* Object.entries(taskStats), in insertion order
analyzeCompletionPatterns(h, ts) ==
    LET keys == KeysInOrder([i \in DOMAIN h |-> h[i].taskId])
    IN  [k \in DOMAIN keys |-> CompletionStatsOfTask(keys[k], h)]

----------------------------------------------------------------------------
(* Insight generators.  An insight is                                      *)
(*   [type, title, taskId, priority, actionable, action];                  *)
(* a field the source leaves out is "" (taskId), FALSE (actionable) or     *)
(* NoAction (action).  The rendered text is left out.                      *)

NoAction == [type |-> "none"]

Insight(type, title, taskId, priority, actionable, action) ==
    [type |-> type, title |-> title, taskId |-> taskId, priority |-> priority,
     actionable |-> actionable, action |-> action]

\* Math.min(x / k, cap)
CappedRatio(x, k, cap) == IF x >= k * cap THEN <<cap, 1>> ELSE <<x, k>>

\* One pass of the loop of generateTimeInsights
TimeInsightsOfPattern(pattern) ==
    (IF pattern.type = "time" /\ FracLess(<<6, 10>>, pattern.confidence)
     THEN <<Insight("pattern", "Orario abituale", pattern.taskId,
                    FracMul(pattern.confidence, 5), TRUE,
                    [type |-> "suggest_time", time |-> pattern.averageTime])>>
     ELSE <<>>)
    \o
    (IF pattern.type = "time_day" /\ FracLess(<<7, 10>>, pattern.confidence)
     THEN <<Insight("pattern", "Pattern settimanale", pattern.taskId,
                    FracMul(pattern.confidence, 6), TRUE, NoAction)>>
     ELSE <<>>)

generateTimeInsights(ps, ts) ==
    Flatten([i \in DOMAIN ps |-> TimeInsightsOfPattern(ps[i])])

\* One pass of the loop of generateDurationInsights
DurationInsightsOfPattern(pattern) ==
    IF Abs(pattern.percentDifference) > 20 /\ pattern.sampleSize >= 5
    THEN IF pattern.difference > 0
         THEN <<Insight("optimization", "Durata sottostimata", pattern.taskId,
                        CappedRatio(Abs(pattern.percentDifference), 10, 8), TRUE,
                        [type              |-> "adjust_duration",
                         suggestedDuration |-> pattern.averageActual])>>
         ELSE IF pattern.difference < -15
         THEN <<Insight("optimization", "Durata sovrastimata", pattern.taskId,
                        CappedRatio(Abs(pattern.percentDifference), 15, 6), TRUE,
                        NoAction)>>
         ELSE <<>>
    ELSE <<>>

generateDurationInsights(ps, ts) ==
    Flatten([i \in DOMAIN ps |-> DurationInsightsOfPattern(ps[i])])

\* One pass of the loop of generateFrequencyInsights; the list of day names
\* (share above 25%) is never empty once the top share is above 40%.
FrequencyInsightsOfPattern(pattern) ==
    IF /\ Len(pattern.preferredDays) > 0
       /\ FracLess(<<40, 1>>, pattern.preferredDays[1].percentage)
       /\ SelectSeq(pattern.preferredDays,
                    LAMBDA d : FracLess(<<25, 1>>, d.percentage)) # <<>>
    THEN <<Insight("pattern", "Giorni preferiti", pattern.taskId,
                   FracMul(pattern.confidence, 4), FALSE, NoAction)>>
    ELSE <<>>

generateFrequencyInsights(ps, ts) ==
    Flatten([i \in DOMAIN ps |-> FrequencyInsightsOfPattern(ps[i])])

generateSequenceInsights(ps, ts) ==
    LET topSequences == Take(SelectSeq(ps, LAMBDA p : FracLess(<<5, 10>>, p.confidence)), 3)
    IN  [i \in DOMAIN topSequences |->
            Insight("pattern", "Sequenza abituale", "",
                    FracMul(topSequences[i].confidence, 5), TRUE,
                    [type       |-> "suggest_sequence",
                     fromTaskId |-> topSequences[i].fromTaskId,
                     toTaskId   |-> topSequences[i].toTaskId,
                     gap        |-> topSequences[i].averageGap])]

\* The search loops of generateCompletionInsights: the first bucket, in key
\* order, whose rate is the highest among the buckets with at least two
\* samples and a rate above 0; <<>> when there is none.
BestBucket(buckets) ==
    LET Total(b) == b.completed + b.skipped
        ok == {i \in DOMAIN buckets : Total(buckets[i]) >= 2 /\ buckets[i].completed > 0}
        Rate(i)  == <<buckets[i].completed, Total(buckets[i])>>
        best == {i \in ok : \A j \in ok : FracLeq(Rate(j), Rate(i))}
    IN  IF ok = {} THEN <<>> ELSE <<buckets[MinOf(best)]>>

\* One pass of the loop of generateCompletionInsights
CompletionInsightsOfTask(stats, ts) ==
    LET total == stats.completed + stats.skipped
        rate  == <<stats.completed, total>>
        bestHour == BestBucket(stats.byHour)
        bestDay  == BestBucket(stats.byDay)
        \* bucket rate > completionRate + 1 / k
        Beats(b, k) == k * b.completed * total >
                       k * stats.completed * (b.completed + b.skipped)
                       + (b.completed + b.skipped) * total
    IN  IF total < 5 \/ ~HasTask(ts, stats.taskId) THEN <<>>
        ELSE
        (IF FracLess(rate, <<1, 2>>) /\ total >= 8
         THEN (IF bestHour # <<>> /\ Beats(bestHour[1], 5)
               THEN <<Insight("optimization", "Orario migliore", stats.taskId,
                              <<7, 1>>, TRUE,
                              [type |-> "suggest_better_time", hour |-> bestHour[1].key])>>
               ELSE <<>>)
              \o
              (IF bestDay # <<>> /\ Beats(bestDay[1], 4)
               THEN <<Insight("optimization", "Giorno migliore", stats.taskId,
                              <<6, 1>>, FALSE, NoAction)>>
               ELSE <<>>)
         ELSE <<>>)
        \o
        (IF FracLess(<<9, 10>>, rate) /\ total >= 10
         THEN <<Insight("achievement", "Ottimo lavoro!", stats.taskId,
                        <<3, 1>>, FALSE, NoAction)>>
         ELSE <<>>)

generateCompletionInsights(completionStats, ts) ==
    Flatten([i \in DOMAIN completionStats |->
                CompletionInsightsOfTask(completionStats[i], ts)])

\* analyzeScheduleGaps: the gaps between consecutive items of one day
analyzeScheduleGaps(sched) ==
    LET dates == KeysInOrder([i \in DOMAIN sched |-> sched[i].date])
        GapsOn(date) ==
            LET items  == SelectSeq(sched, LAMBDA x : x.date = date)
                sorted == SortStable(items,
                              [i \in DOMAIN items |-> [j \in DOMAIN items |->
                                  LexLess(items[i].startTime, items[j].startTime)]])
                GapAt(i) ==
                    LET prevEnd == addMinutesToTime(sorted[i - 1].startTime,
                                                    sorted[i - 1].duration)
                        gap     == timeToMinutes(sorted[i].startTime) - timeToMinutes(prevEnd)
                    IN  IF gap > 0 /\ gap < 480 THEN <<gap>> ELSE <<>>
            IN  Flatten([i \in 1..Len(sorted) |-> IF i = 1 THEN <<>> ELSE GapAt(i)])
        gaps == Flatten([k \in DOMAIN dates |-> GapsOn(dates[k])])
    IN  [averageGap |-> IF gaps = <<>> THEN <<0, 1>> ELSE <<SumSeq(gaps), Len(gaps)>>,
         totalGaps  |-> Len(gaps)]

\* analyzeProductivityByHour: bestHour is <<>> (null) or <<hour>>
analyzeProductivityByHour(h) ==
    LET kept  == SelectSeq(h, LAMBDA e : e.status = "completed" /\ e.startTime # NoTime)
        hours == {HourOf(kept[i].startTime) : i \in DOMAIN kept}
        CountOf(x) == Len(SelectSeq(kept, LAMBDA e : HourOf(e.startTime) = x))
        top   == {x \in hours : \A y \in hours : CountOf(y) <= CountOf(x)}
    IN  [bestHour |-> IF hours # {} /\ CountOf(MinOf(top)) >= 5
                      THEN <<MinOf(top)>> ELSE <<>>]

analyzeWeekdayVsWeekend(h) ==
    LET IsWeekend(e) == getDay(e.date) = 0 \/ getDay(e.date) = 6
        weekend == SelectSeq(h, LAMBDA e : IsWeekend(e))
        weekday == SelectSeq(h, LAMBDA e : ~IsWeekend(e))
        weekendTotal     == Len(weekend)
        weekdayTotal     == Len(weekday)
        weekendCompleted == Len(Completed(weekend))
        weekdayCompleted == Len(Completed(weekday))
    IN  [significant |->
            /\ weekdayTotal >= 10
            /\ weekendTotal >= 5
            \* Math.abs(weekdayRate - weekendRate) > 0.15
            /\ 100 * Abs(weekdayCompleted * weekendTotal - weekendCompleted * weekdayTotal)
                   > 15 * weekdayTotal * weekendTotal]

generateOptimizationInsights(h, sched, ts) ==
    (IF FracLess(<<45, 1>>, analyzeScheduleGaps(sched).averageGap)
     THEN <<Insight("optimization", "Tempi morti", "", <<5, 1>>, FALSE, NoAction)>>
     ELSE <<>>)
    \o
    (IF analyzeProductivityByHour(h).bestHour # <<>>
     THEN <<Insight("insight", "Fascia piu produttiva", "", <<6, 1>>, FALSE, NoAction)>>
     ELSE <<>>)
    \o
    (IF analyzeWeekdayVsWeekend(h).significant
     THEN <<Insight("insight", "Pattern settimanale", "", <<4, 1>>, FALSE, NoAction)>>
     ELSE <<>>)

----------------------------------------------------------------------------
(* DB: the pattern store                                                   *)

EmptyStore == [id \in {} |-> <<>>]

\* getAllPatterns: the records of the store (their key order is not modelled)
getAllPatterns(store) == {store[id] : id \in DOMAIN store}

\* A save that leaves a record already stored under the id as it is
savePatternKeeping(store, pattern) ==
    IF pattern.id \in DOMAIN store THEN store
    ELSE [id \in DOMAIN store \cup {pattern.id} |->
             IF id = pattern.id THEN pattern ELSE store[id]]

\* A save that adds a second record when the id is already stored
savePatternAdding(store, pattern) ==
    LET key == IF pattern.id \in DOMAIN store THEN pattern.id \o "_2" ELSE pattern.id
    IN  [id \in DOMAIN store \cup {key} |-> IF id = key THEN pattern ELSE store[id]]

\* savePattern: IndexedDB put, an upsert under the pattern's id.  The
\* updatedAt stamp is left out of the records.
savePattern(store, pattern) ==
    [id \in DOMAIN store \cup {pattern.id} |->
        IF id = pattern.id THEN pattern ELSE store[id]]

RECURSIVE SaveAll(_, _)
SaveAll(store, ps) ==
    IF ps = <<>> THEN store ELSE SaveAll(savePattern(store, Head(ps)), Tail(ps))

----------------------------------------------------------------------------
(* Orchestrator: the synchronous part of analyze()                         *)

MIN_HISTORY_FOR_PATTERNS == 5

\* A gate that opens two entries early
GatedBelowThree(h) == Len(h) < 3

\* Line 28: the hard gate of analyze()
Gated(h) == Len(h) < MIN_HISTORY_FOR_PATTERNS

GateInsight == Insight("info", "Raccolta dati", "", <<0, 1>>, FALSE, NoAction)

\* Lines 68-84: the time patterns of one entry of periodBreakdown, tagged
PeriodPatternsOf(bucket, ts, categories) ==
    IF Len(bucket.entries) >= 3
    THEN LET named == {i \in DOMAIN categories : categories[i].id = bucket.categoryId}
             categoryName == IF named = {} THEN "Periodo speciale"
                             ELSE categories[MinOf(named)].name
             found == analyzeTimePatterns(bucket.entries, ts)
         IN  [i \in DOMAIN found |->
                 [id                 |-> found[i].id \o "_period_" \o bucket.categoryId,
                  periodCategory     |-> bucket.categoryId,
                  periodCategoryName |-> categoryName] @@ found[i]]
    ELSE <<>>

\* Lines 40-93: from the segmentation to allPatterns
Pipeline(ts, h, sched, periods, categories) ==
    LET parts             == separateHistoryByPeriods(h, periods, categories)
        normalHistory     == parts.normalHistory
        timePatterns      == analyzeTimePatterns(normalHistory, ts)
        durationPatterns  == analyzeDurationPatterns(normalHistory, ts)
        frequencyPatterns == analyzeFrequencyPatterns(normalHistory, ts)
        sequencePatterns  == analyzeSequencePatterns(normalHistory, ts)
        completionPatterns == analyzeCompletionPatterns(normalHistory, ts)
        periodPatterns    == Flatten([k \in DOMAIN parts.periodBreakdown |->
                                PeriodPatternsOf(parts.periodBreakdown[k], ts, categories)])
    IN  [insights |->
            generateTimeInsights(timePatterns, ts)
            \o generateDurationInsights(durationPatterns, ts)
            \o generateFrequencyInsights(frequencyPatterns, ts)
            \o generateSequenceInsights(sequencePatterns, ts)
            \o generateCompletionInsights(completionPatterns, ts)
            \o generateOptimizationInsights(normalHistory, sched, ts)
            \o (IF Len(parts.periodHistory) > 0
                THEN <<Insight("info", "Periodi speciali", "", <<1, 1>>, FALSE, NoAction)>>
                ELSE <<>>),
         allPatterns |->
            timePatterns \o durationPatterns \o frequencyPatterns
            \o sequencePatterns \o periodPatterns]

\* The sort with its comparator reversed
RankInsightsAscending(insights) ==
    Take(SortStable(insights,
                    [i \in DOMAIN insights |-> [j \in DOMAIN insights |->
                        FracLess(insights[i].priority, insights[j].priority)]]), 10)

\* Lines 99-103: insights.sort(...) and insights.slice(0, 10)
RankInsights(insights) ==
    Take(SortStable(insights,
                    [i \in DOMAIN insights |-> [j \in DOMAIN insights |->
                        FracLess(insights[j].priority, insights[i].priority)]]), 10)

----------------------------------------------------------------------------
(* Routine suggestion generator                                            *)

\* The ids of the model in string order; the object stores return their
\* records in the order of their keys.
IdOrder == <<"c1", "c2", "s1", "s2", "s3", "s4", "s5", "t1", "t2", "tx">>

StringBefore(a, b) ==
    \E i, j \in DOMAIN IdOrder : IdOrder[i] = a /\ IdOrder[j] = b /\ i < j

\* patterns.find(...) among the time patterns of one task (and weekday): in
\* key order the pattern of the normal routine, whose id is a prefix of the
\* others, comes before the period patterns, and these come by category.
FirstInKeyOrder(S) ==
    LET normal == {p \in S : "periodCategory" \notin DOMAIN p}
    IN  IF normal # {} THEN CHOOSE p \in normal : TRUE
        ELSE CHOOSE p \in S :
                 \A q \in S : p = q \/ StringBefore(p.periodCategory, q.periodCategory)

\* The day-specific confidence left without its factor
BoostConfidenceNone(c) == c

\* freqPattern.confidence * 1.2
BoostConfidence(c) == <<6 * c[1], 5 * c[2]>>

\* A weekday counts as typical whatever its share
TypicalOnAnyShare(freqPattern, dayOfWeek) ==
    \E k \in DOMAIN freqPattern.preferredDays : freqPattern.preferredDays[k].day = dayOfWeek

\* Lines 741-742: the weekday is among the preferred days of the pattern
\* with a share of at least 20
TypicalOn(freqPattern, dayOfWeek) ==
    LET dayPref == SelectSeq(freqPattern.preferredDays, LAMBDA d : d.day = dayOfWeek)
    IN  IF dayPref = <<>> THEN FALSE
        ELSE ~FracLess(dayPref[1].percentage, <<20, 1>>)

\* One pass of the loop at lines 739-781
SuggestionOfPattern(freqPattern, all, ts, dayOfWeek) ==
    LET dayTime    == {p \in all : /\ p.type = "time_day"
                                    /\ p.taskId = freqPattern.taskId
                                    /\ p.dayOfWeek = dayOfWeek}
        generalTime == {p \in all : p.type = "time" /\ p.taskId = freqPattern.taskId}
        Suggest(time, confidence, reason) ==
            LET task == FindTask(ts, freqPattern.taskId)
            IN  <<[taskId        |-> task.id,
                   taskName      |-> task.name,
                   suggestedTime |-> time,
                   duration      |-> task.defaultDuration,
                   confidence    |-> confidence,
                   reason        |-> reason]>>
    IN  IF ~TypicalOn(freqPattern, dayOfWeek) THEN <<>>
        ELSE IF ~HasTask(ts, freqPattern.taskId) THEN <<>>
        ELSE IF dayTime # {}
             THEN Suggest(FirstInKeyOrder(dayTime).averageTime,
                          BoostConfidence(freqPattern.confidence), "Di solito lo fai")
        ELSE IF generalTime # {}
             THEN Suggest(FirstInKeyOrder(generalTime).averageTime,
                          freqPattern.confidence, "Orario abituale")
        ELSE <<>>

\* The sort with the time as its only key
SortSuggestionsByTime(found) ==
    SortStable(found,
        [i \in DOMAIN found |-> [j \in DOMAIN found |->
            LexLess(found[i].suggestedTime, found[j].suggestedTime)]])

\* Lines 784-788: by suggestedTime, then by confidence from the highest
SortSuggestions(found) ==
    SortStable(found,
        [i \in DOMAIN found |-> [j \in DOMAIN found |->
            \/ LexLess(found[i].suggestedTime, found[j].suggestedTime)
            \/ /\ found[i].suggestedTime = found[j].suggestedTime
               /\ FracLess(found[j].confidence, found[i].confidence)]])

\* generateRoutineSuggestion(dayOfWeek, tasks) over the pattern store
generateRoutineSuggestion(store, ts, dayOfWeek) ==
    LET all   == getAllPatterns(store)
        freq  == {p \in all : p.type = "frequency"}
        \* the frequency patterns in key order: "frequency_" + taskId
        keys  == SelectSeq(IdOrder, LAMBDA id : \E p \in freq : p.taskId = id)
        found == Flatten([k \in DOMAIN keys |->
                     SuggestionOfPattern(CHOOSE p \in freq : p.taskId = keys[k],
                                         all, ts, dayOfWeek)])
    IN  SortSuggestions(found)

----------------------------------------------------------------------------
(* Data the model runs on                                                  *)

\* Bounds on the length of the history store, per specification
MaxHist == 6
MaxTime == 11
MaxDur  == 5
MaxLong == 16
MaxRoutine == 13
MaxSeqHist == 93
MaxFail == 6
MaxSuggest == 6
MaxOverlap == 6
MaxSeg == 4
MaxDay == 8
MaxPairDays == 3
MaxMissing == 5
MaxIdDays == 4
MaxMark == 2
MaxPeriod == 5

Callers == {1, 2}

T(h, m) == PadStart2(h) \o PadStart2(m)

Task(id, name, defaultDuration) ==
    [id |-> id, name |-> name, defaultDuration |-> defaultDuration]

TaskCatalog == {Task("t1", "T1", 30), Task("t2", "T2", 60)}

Entry(taskId, date, startTime, endTime, plannedDuration, actualDuration, status) ==
    [taskId |-> taskId, date |-> date, startTime |-> startTime, endTime |-> endTime,
     plannedDuration |-> plannedDuration, actualDuration |-> actualDuration,
     status |-> status]

\* The entry markTaskComplete writes: always with both times and a duration
CompletedEntry(taskId, date, startTime, endTime, plannedDuration) ==
    Entry(taskId, date, startTime, endTime, plannedDuration,
          timeToMinutes(endTime) - timeToMinutes(startTime), "completed")

\* The entry markTaskSkipped writes: no endTime, no actualDuration
SkippedEntry(taskId, date, startTime, plannedDuration) ==
    Entry(taskId, date, startTime, NoTime, plannedDuration, 0, "skipped")

\* Day 8 is a Monday, day 9 a Tuesday.
Morning == CompletedEntry("t1", 8, T(9, 0), T(9, 45), 30)
Late    == CompletedEntry("t1", 9, T(20, 0), T(20, 30), 30)
Skipped == SkippedEntry("t2", 8, T(10, 0), 60)
Shorter == CompletedEntry("t2", 8, T(9, 30), T(10, 10), 60)
Sunday  == SkippedEntry("t2", 7, T(10, 0), 60)

\* What the handlers record under Spec
Entries == {Morning, Late, Skipped}

\* Time-of-day samples: around 10:00, two hours apart, another weekday, a
\* skip and a task that is no longer in the catalog
TimeKinds ==
    <<CompletedEntry("t1", 8, T(9, 0), T(9, 30), 30),
      CompletedEntry("t1", 8, T(9, 59), T(10, 29), 30),
      CompletedEntry("t1", 8, T(10, 0), T(10, 30), 30),
      CompletedEntry("t1", 9, T(11, 0), T(11, 30), 30),
      SkippedEntry("t1", 8, T(9, 0), 30),
      CompletedEntry("tx", 8, T(9, 0), T(9, 30), 30)>>

\* Start times of one task on Mondays, 89 and 90 minutes apart, and on
\* Tuesdays far from them
DayKinds ==
    <<CompletedEntry("t1", 8, T(9, 0), T(9, 30), 30),
      CompletedEntry("t1", 8, T(10, 29), T(10, 59), 30),
      CompletedEntry("t1", 8, T(10, 30), T(11, 0), 30),
      CompletedEntry("t1", 9, T(13, 0), T(13, 30), 30)>>

\* Planned and actual durations of one task
DurEntry(planned, actual) ==
    Entry("t1", 8, T(9, 0), addMinutesToTime(T(9, 0), actual), planned, actual, "completed")

\* The samples of the duration analyzer; it only adds them up, so they are
\* enumerated up to their order (DurKinds in this order, see putInOrder).
DurKinds ==
    <<DurEntry(60, 90), DurEntry(60, 44), DurEntry(60, 45), DurEntry(60, 1),
      DurEntry(1, 1), DurEntry(1, 2), DurEntry(2, 2)>>

\* Five tasks and a day that goes through them in a fixed order, one every
\* ten minutes from 08:00: the order takes each of the 25 ordered pairs of
\* tasks exactly once.
SeqCatalog == {Task("s1", "S1", 5), Task("s2", "S2", 5), Task("s3", "S3", 5),
               Task("s4", "S4", 5), Task("s5", "S5", 5)}

SeqIds == <<"s1", "s2", "s3", "s4", "s5">>

Chain == <<1, 5, 5, 4, 5, 3, 5, 2, 5, 1, 4, 4, 3, 4, 2, 4, 1, 3, 3, 2, 3, 1, 2, 2, 1, 1>>

\* The entry of the i-th stop of the chain on a date
ChainEntry(i, date) ==
    CompletedEntry(SeqIds[Chain[i]], date,
                   T(8 + (10 * (i - 1)) \div 60, (10 * (i - 1)) % 60),
                   T(8 + (10 * (i - 1) + 5) \div 60, (10 * (i - 1) + 5) % 60), 5)

\* The stops a day takes: the whole chain, its last 14 pairs or its first 21
SeqDays == {<<1, 26>>, <<12, 26>>, <<1, 22>>}

\* The days of the pair walk, each a list of entries in the order they were
\* recorded (their date is set when the day is added): a skip between two
\* completions, a day recorded out of clock order with more than four hours
\* between, a task starting when the other ends, a task that is no longer
\* in the catalog three times between runs of another, an entry without
\* endTime, and twelve runs of the same task
PairDays ==
    <<<<CompletedEntry("t1", 0, T(9, 0), T(9, 30), 30),
        SkippedEntry("t2", 0, T(9, 35), 60),
        CompletedEntry("t2", 0, T(9, 40), T(10, 0), 60)>>,
      <<CompletedEntry("t2", 0, T(14, 0), T(14, 30), 60),
        CompletedEntry("t1", 0, T(9, 0), T(9, 30), 30)>>,
      <<CompletedEntry("t1", 0, T(9, 0), T(9, 30), 30),
        CompletedEntry("t2", 0, T(9, 30), T(10, 0), 60)>>,
      [i \in 1..10 |-> CompletedEntry(IF i \in {8, 10} THEN "t2" ELSE IF i % 2 = 1 THEN "t1" ELSE "tx",
                                     0, T(9, 5 * (i - 1)), T(9, 5 * (i - 1) + 3), 30)],
      <<Entry("t1", 0, T(9, 0), NoTime, 30, 0, "completed"),
        CompletedEntry("t2", 0, T(9, 40), T(10, 0), 60)>>,
      [i \in 1..12 |-> CompletedEntry("t1", 0, T(9, 5 * (i - 1)), T(9, 5 * (i - 1) + 3), 30)]>>

\* Completed entries of one Monday with and without their optional fields:
\* complete, without startTime, without actualDuration, and complete just
\* after midnight
MissingKinds ==
    <<CompletedEntry("t1", 8, T(9, 0), T(9, 30), 30),
      Entry("t1", 8, NoTime, T(9, 30), 30, 30, "completed"),
      Entry("t1", 8, T(9, 0), T(9, 30), 30, 0, "completed"),
      CompletedEntry("t1", 8, T(0, 30), T(1, 0), 30)>>

\* A catalog whose ids were not generated by generateId: they are kept as
\* given (task.id || generateId(), and the records of a backup file), and
\* contain the separator of the pattern ids
IdCatalog ==
    {Task("t1", "T1", 30), Task("t1_day1", "T1 day", 30), Task("t1_t1", "T1 twice", 30)}

\* Days of that catalog: two tasks alternating, three runs of the third
\* task, and a single run
IdDays ==
    <<[i \in 1..5 |-> CompletedEntry(IF i % 2 = 1 THEN "t1" ELSE "t1_t1",
                                     0, T(9, 10 * (i - 1)), T(9, 10 * (i - 1) + 5), 30)],
      [i \in 1..3 |-> CompletedEntry("t1_day1", 0, T(13, 10 * (i - 1)),
                                     T(13, 10 * (i - 1) + 5), 30)],
      <<CompletedEntry("t1", 0, T(9, 0), T(9, 5), 30)>>>>

\* What the two time inputs of the detail modal hold when a button is
\* pressed: nothing, the same time twice, other times than the planned
\* ones, an end before the start
ActualTimes ==
    {<<NoTime, NoTime>>, <<T(9, 0), T(9, 0)>>, <<T(9, 10), T(9, 50)>>,
     <<T(23, 30), T(0, 10)>>}

\* Two tasks on Monday and Tuesday mornings
TueMorning == CompletedEntry("t1", 9, T(9, 30), T(10, 0), 30)
Same       == CompletedEntry("t2", 8, T(9, 0), T(9, 50), 60)
TueLater   == CompletedEntry("t2", 9, T(9, 40), T(10, 40), 60)

RoutineKinds == <<Morning, TueMorning, Same, TueLater>>

\* One task on two Mondays and, at another time, on the Tuesday between
\* them
PeriodKinds ==
    <<Morning, CompletedEntry("t1", 15, T(9, 0), T(9, 45), 30), TueMorning>>

\* The weekdays a routine is asked for: Sunday, Monday, Tuesday
SuggestDays == {0, 1, 2}

\* Two tasks done over and over and skips on Sundays, enumerated in blocks
LongKinds == <<Morning, Shorter, Sunday>>

SampleSchedule ==
    <<[taskId |-> "t1", date |-> 8, startTime |-> T(9, 0), duration |-> 30],
      [taskId |-> "t1", date |-> 8, startTime |-> T(11, 0), duration |-> 30]>>

Period(startDate, endDate, categoryId) ==
    [startDate |-> startDate, endDate |-> endDate, categoryId |-> categoryId]

\* The 'specialPeriods' setting another page of the application maintains
PeriodSettings == {<<>>, <<Period(9, 9, "c1")>>}

\* Period lists with periods that overlap, in both orders, and with two
\* periods of one category
SegSettings ==
    {<<>>,
     <<Period(9, 9, "c1")>>,
     <<Period(9, 9, "c1"), Period(8, 9, "c2")>>,
     <<Period(8, 9, "c2"), Period(9, 9, "c1")>>,
     <<Period(7, 7, "c1"), Period(9, 9, "c1"), Period(7, 8, "c2")>>}

\* Entries of a Sunday, a Monday and a Tuesday
SegEntries == {Sunday, Morning, Shorter, Late}

SampleCategories == <<[id |-> "c1", name |-> "Ferie"]>>

\* A backup file that was not written by this application's export: a short
\* history with the patterns of a longer one
Backup ==
    [tasks    |-> TaskCatalog,
     schedule |-> SampleSchedule,
     history  |-> <<Morning, Morning>>,
     patterns |-> SaveAll(EmptyStore,
                     analyzeTimePatterns(<<Morning, Morning, Morning, Morning, Morning>>,
                                         TaskCatalog)),
     specialPeriods   |-> <<>>,
     periodCategories |-> SampleCategories]

----------------------------------------------------------------------------
(* The state machine                                                       *)

NoResult == [insights |-> <<>>, patterns |-> <<>>]
NoPrior  == [set |-> FALSE, result |-> NoResult, patterns |-> EmptyStore]
\* No routine asked for yet
NoSuggestions == [dayOfWeek |-> <<>>, list |-> <<>>]

NoSegments == [normalHistory |-> <<>>, periodHistory |-> <<>>, periodBreakdown |-> <<>>]

\* The detail modal closed: selectedScheduledTask is null
NoModal == [selectedScheduledTask |-> 0, completeDisabled |-> FALSE, skipDisabled |-> FALSE]

\* The stores other than the history, and the analysis state, before any
\* handler has run
Started ==
    /\ schedule = SampleSchedule
    /\ patterns = EmptyStore
    /\ periodCategories = SampleCategories
    /\ pc = [p \in Callers |-> "idle"]
    /\ existing = [p \in Callers |-> {}]
    /\ computed = [p \in Callers |-> <<>>]
    /\ cursor = [p \in Callers |-> 0]
    /\ pool = [p \in Callers |-> <<>>]
    /\ result = [p \in Callers |-> NoResult]
    /\ started = [p \in Callers |-> EmptyStore]
    /\ prior = NoPrior
    /\ touched = TRUE
    /\ suggestions = NoSuggestions
    /\ segments = NoSegments
    /\ lastSaved = EmptyStore
    /\ marked = << >>
    /\ modal = NoModal
    /\ held = [p \in Callers |-> <<>>]
    /\ recorded = << >>

\* The stores and the analysis state before anything was recorded
Fresh == history = <<>> /\ Started

Init ==
    /\ tasks = TaskCatalog
    /\ specialPeriods \in PeriodSettings
    /\ Fresh

InitPure == Init /\ specialPeriods = <<>>

\* Any of the period lists with overlaps
InitSeg ==
    /\ tasks = TaskCatalog
    /\ specialPeriods \in SegSettings
    /\ Fresh

\* A catalog of five tasks, no special period
InitSeq ==
    /\ tasks = SeqCatalog
    /\ specialPeriods = <<>>
    /\ Fresh

\* The catalog with ids that contain the separator
InitIds ==
    /\ tasks = IdCatalog
    /\ specialPeriods \in PeriodSettings
    /\ Fresh

\* The Tuesday is a special period
InitPeriod == Init /\ specialPeriods # <<>>

\* No handler is suspended
Quiet == \A p \in Callers : pc[p] \in {"idle", "done", "failed"}

analysisVars == <<existing, computed, cursor, pool, result, started, prior>>
markVars     == <<marked, modal, held, recorded>>
otherVars    == <<suggestions, segments, lastSaved, markVars>>
storeVars    == <<tasks, schedule, patterns, specialPeriods, periodCategories>>

\* DB.addHistoryEntry: a new record at the end of the history store
addHistoryEntry(entry) == history' = Append(history, entry)

\* App.markTaskComplete / App.markTaskSkipped, up to their last statement:
\* the entry is written, then refreshInsights() is awaited.  The status the
\* handlers also write on the scheduled instance is not a field of the
\* schedule records here: analyze() reads their date, startTime and duration,
\* suggestRoutine their taskId as well.
markTask(p, entry, max) ==
    /\ Quiet
    /\ Len(history) < max
    /\ addHistoryEntry(entry)
    /\ pc' = [pc EXCEPT ![p] = "analyze"]
    /\ touched' = TRUE
    /\ UNCHANGED <<storeVars, analysisVars, otherVars>>

markTaskComplete(p, entry, max) ==
    /\ entry.status = "completed"
    /\ markTask(p, entry, max)

markTaskSkipped(p, entry, max) ==
    /\ entry.status = "skipped"
    /\ markTask(p, entry, max)

\* App.refreshInsights called on its own (loadApp)
refreshInsights(p) ==
    /\ Quiet
    /\ pc' = [pc EXCEPT ![p] = "analyze"]
    /\ UNCHANGED <<storeVars, history, analysisVars, touched, otherVars>>

\* App.importData: DB.importData replaces every store, loadApp follows
importData(p, data) ==
    /\ Quiet
    /\ tasks' = data.tasks
    /\ schedule' = data.schedule
    /\ history' = data.history
    /\ patterns' = data.patterns
    /\ specialPeriods' = data.specialPeriods
    /\ periodCategories' = data.periodCategories
    /\ pc' = [pc EXCEPT ![p] = "analyze"]
    /\ touched' = TRUE
    /\ lastSaved' = EmptyStore
    /\ UNCHANGED <<analysisVars, suggestions, segments, markVars>>

\* analyze(), lines 16-93: the reads, the gate and the synchronous pipeline
analyzeLoad(p) ==
    /\ pc[p] = "analyze"
    /\ existing' = [existing EXCEPT ![p] = getAllPatterns(patterns)]
    /\ started' = [started EXCEPT ![p] = patterns]
    /\ prior' = IF touched THEN NoPrior
                ELSE [set |-> TRUE, result |-> result[p], patterns |-> patterns]
    /\ cursor' = [cursor EXCEPT ![p] = 0]
    /\ IF Gated(history)
       THEN /\ result' = [result EXCEPT ![p] =
                             [insights |-> <<GateInsight>>,
                              patterns |-> getAllPatterns(patterns)]]
            /\ computed' = [computed EXCEPT ![p] = <<>>]
            /\ pool' = [pool EXCEPT ![p] = <<>>]
            /\ pc' = [pc EXCEPT ![p] = "done"]
            /\ touched' = FALSE
       ELSE \E run \in {Pipeline(tasks, history, schedule, specialPeriods, periodCategories)} :
                /\ computed' = [computed EXCEPT ![p] = run.allPatterns]
                /\ pool' = [pool EXCEPT ![p] = run.insights]
                /\ pc' = [pc EXCEPT ![p] = "saving"]
                /\ UNCHANGED <<result, touched>>
    /\ UNCHANGED <<storeVars, history, otherVars>>

\* analyze(), lines 95-97: one await DB.savePattern(pattern)
analyzeSave(p) ==
    /\ pc[p] = "saving"
    /\ cursor[p] < Len(computed[p])
    /\ patterns' = savePattern(patterns, computed[p][cursor[p] + 1])
    /\ cursor' = [cursor EXCEPT ![p] = cursor[p] + 1]
    /\ lastSaved' = ((computed[p][cursor[p] + 1].id :> computed[p][cursor[p] + 1])
                     @@ lastSaved)
    /\ UNCHANGED <<tasks, history, schedule, specialPeriods, periodCategories,
                   suggestions, segments,
                   pc, existing, computed, pool, result, started, prior, touched, markVars>>

\* A failing save that leaves its record in the store all the same
analyzeSaveFailsWritten(p) ==
    /\ pc[p] = "saving"
    /\ cursor[p] < Len(computed[p])
    /\ patterns' = savePattern(patterns, computed[p][cursor[p] + 1])
    /\ pc' = [pc EXCEPT ![p] = "failed"]
    /\ UNCHANGED <<tasks, history, schedule, specialPeriods, periodCategories,
                   analysisVars, touched, otherVars>>

\* analyze(), lines 95-97, when DB.put rejects: the request failed, the
\* record was not written, and the rejection leaves the loop and analyze()
analyzeSaveFails(p) ==
    /\ pc[p] = "saving"
    /\ cursor[p] < Len(computed[p])
    /\ pc' = [pc EXCEPT ![p] = "failed"]
    /\ UNCHANGED <<storeVars, history, analysisVars, touched, otherVars>>

\* analyze(), lines 99-105: the sort and the return
analyzeReturn(p) ==
    /\ pc[p] = "saving"
    /\ cursor[p] = Len(computed[p])
    /\ result' = [result EXCEPT ![p] =
                     [insights |-> RankInsights(pool[p]), patterns |-> computed[p]]]
    /\ pc' = [pc EXCEPT ![p] = "done"]
    /\ touched' = FALSE
    /\ UNCHANGED <<storeVars, history, existing, computed, cursor, pool, started, prior,
                   otherVars>>

\* The application in daily use, one handler at a time: caller 1 only
Next ==
    \/ \E e \in Entries : markTaskComplete(1, e, MaxHist)
    \/ \E e \in Entries : markTaskSkipped(1, e, MaxHist)
    \/ refreshInsights(1)
    \/ analyzeLoad(1)
    \/ analyzeSave(1)
    \/ analyzeReturn(1)

Spec == Init /\ [][Next]_vars

\* One task completed in the morning or late, with pattern saves that can
\* fail
NextFail ==
    \/ \E e \in {Morning, Late} : markTaskComplete(1, e, MaxFail)
    \/ analyzeLoad(1)
    \/ analyzeSave(1)
    \/ analyzeSaveFails(1)
    \/ analyzeReturn(1)

SpecFail == Init /\ [][NextFail]_vars

\* The loop at the end of App.suggestRoutine: each suggestion whose task is
\* in the catalog and that is not yet scheduled at that date and time is
\* added to the schedule with the task's default duration
RECURSIVE ScheduleSuggested(_, _, _, _)
ScheduleSuggested(sched, list, date, ts) ==
    IF list = <<>> THEN sched
    ELSE LET item == Head(list)
             skip == \/ ~HasTask(ts, item.taskId)
                     \/ \E i \in DOMAIN sched : /\ sched[i].date = date
                                                /\ sched[i].taskId = item.taskId
                                                /\ sched[i].startTime = item.suggestedTime
         IN  ScheduleSuggested(
                 IF skip THEN sched
                 ELSE Append(sched, [taskId    |-> item.taskId,
                                     date      |-> date,
                                     startTime |-> item.suggestedTime,
                                     duration  |-> FindTask(ts, item.taskId).defaultDuration]),
                 Tail(list), date, ts)

\* A generator step that puts its suggestions on the schedule itself
suggestRoutineScheduling(p, dayOfWeek) ==
    /\ Quiet
    /\ Len(history) >= 5
    /\ \E list \in {generateRoutineSuggestion(patterns, tasks, dayOfWeek)} :
           /\ suggestions' = [dayOfWeek |-> <<dayOfWeek>>, list |-> list]
           /\ pc' = IF list = <<>> THEN pc ELSE [pc EXCEPT ![p] = "confirm"]
           /\ schedule' = ScheduleSuggested(schedule, list, 7 + dayOfWeek, tasks)
    /\ UNCHANGED <<tasks, patterns, specialPeriods, periodCategories, history,
                   analysisVars, touched, segments, lastSaved, markVars>>

\* App.suggestRoutine up to its dialog: the history gate, then
\* Algorithm.generateRoutineSuggestion(dayOfWeek, this.tasks); without
\* suggestions the handler returns
suggestRoutine(p, dayOfWeek) ==
    /\ Quiet
    /\ Len(history) >= 5
    /\ \E list \in {generateRoutineSuggestion(patterns, tasks, dayOfWeek)} :
           /\ suggestions' = [dayOfWeek |-> <<dayOfWeek>>, list |-> list]
           /\ pc' = IF list = <<>> THEN pc ELSE [pc EXCEPT ![p] = "confirm"]
    /\ UNCHANGED <<storeVars, history, analysisVars, touched, segments, lastSaved, markVars>>

\* App.suggestRoutine after its dialog: on confirmation the suggestions go
\* on the schedule of the target date (day 7 is a Sunday)
confirmRoutine(p, confirmed) ==
    /\ pc[p] = "confirm"
    /\ schedule' = IF confirmed
                   THEN ScheduleSuggested(schedule, suggestions.list,
                                          7 + suggestions.dayOfWeek[1], tasks)
                   ELSE schedule
    /\ pc' = [pc EXCEPT ![p] = "idle"]
    /\ UNCHANGED <<tasks, patterns, specialPeriods, periodCategories, history,
                   analysisVars, touched, otherVars>>

\* One task completed in the morning or late, analysed, and routines asked
\* for and accepted or not
NextSuggest ==
    \/ \E e \in {Morning, Late} : markTaskComplete(1, e, MaxSuggest)
    \/ analyzeLoad(1)
    \/ analyzeSave(1)
    \/ analyzeReturn(1)
    \/ \E d \in SuggestDays : suggestRoutine(1, d)
    \/ \E c \in BOOLEAN : confirmRoutine(1, c)

SpecSuggest == Init /\ [][NextSuggest]_vars

\* App.markTaskComplete while another handler is still waiting for its
\* analyze(): nothing keeps the user from marking the next task
markTaskOverlapping(p, entry, max) ==
    /\ pc[p] \in {"idle", "done"}
    /\ Len(history) < max
    /\ addHistoryEntry(entry)
    /\ pc' = [pc EXCEPT ![p] = "analyze"]
    /\ touched' = TRUE
    /\ UNCHANGED <<storeVars, analysisVars, otherVars>>

\* The next step of one analyze() call
analyzeStep(p) == analyzeLoad(p) \/ analyzeSave(p) \/ analyzeReturn(p)

\* Two handlers whose analyze() calls interleave at their awaits
NextOverlap ==
    \E p \in Callers :
        \/ markTaskOverlapping(p, Morning, MaxOverlap)
        \/ analyzeStep(p)

SpecOverlap == InitPure /\ [][NextOverlap]_vars

\* The same, with a backup file restored at any quiet moment
NextImport == Next \/ importData(1, Backup)

SpecImport == Init /\ [][NextImport]_vars

----------------------------------------------------------------------------
(* The analyzers, generators and ranking applied as functions of a history *)
(* of any length: records are put in the history store, then the pipeline  *)
(* of analyze() runs on them once, without the gate and without the saves. *)

putHistory(entry, max) ==
    /\ pc[1] = "idle"
    /\ Len(history) < max
    /\ addHistoryEntry(entry)
    /\ UNCHANGED <<storeVars, pc, analysisVars, touched, otherVars>>

applyPipeline ==
    /\ pc[1] = "idle"
    /\ \E run \in {Pipeline(tasks, history, schedule, specialPeriods, periodCategories)} :
           /\ computed' = [computed EXCEPT ![1] = run.allPatterns]
           /\ pool' = [pool EXCEPT ![1] = run.insights]
           /\ result' = [result EXCEPT ![1] =
                            [insights |-> RankInsights(run.insights),
                             patterns |-> run.allPatterns]]
    /\ pc' = [pc EXCEPT ![1] = "applied"]
    /\ UNCHANGED <<storeVars, history, existing, cursor, started, prior, touched,
                   otherVars>>

\* Records put in the order of kinds: every multiset of records, once
putInOrder(kinds, max) ==
    \E k \in DOMAIN kinds :
        /\ IF history = <<>> THEN TRUE
           ELSE history[Len(history)] \in {kinds[j] : j \in 1..k}
        /\ putHistory(kinds[k], max)

NextDay == putInOrder(DayKinds, MaxDay) \/ applyPipeline
SpecDay == InitPure /\ [][NextDay]_vars

NextMissing == putInOrder(MissingKinds, MaxMissing) \/ applyPipeline
SpecMissing == InitPure /\ [][NextMissing]_vars

NextTime == putInOrder(TimeKinds, MaxTime) \/ applyPipeline
SpecTime == InitPure /\ [][NextTime]_vars

NextDur == putInOrder(DurKinds, MaxDur) \/ applyPipeline
SpecDur == InitPure /\ [][NextDur]_vars

NextLong == putInOrder(LongKinds, MaxLong) \/ applyPipeline
SpecLong == InitPure /\ [][NextLong]_vars

\* One more day of completions, the stops first..last of the chain
putDay(first, last) ==
    /\ pc[1] = "idle"
    /\ Len(history) + last - first + 1 <= MaxSeqHist
    /\ history' = history \o [i \in 1..(last - first + 1) |->
                       ChainEntry(first + i - 1, IF history = <<>> THEN 8
                                                 ELSE history[Len(history)].date + 1)]
    /\ UNCHANGED <<storeVars, pc, analysisVars, touched, otherVars>>

\* analyzeSequencePatterns(normalHistory, tasks) on its own
applySequences ==
    /\ pc[1] = "idle"
    /\ \E found \in {analyzeSequencePatterns(history, tasks)} :
           computed' = [computed EXCEPT ![1] = found]
    /\ pc' = [pc EXCEPT ![1] = "applied"]
    /\ UNCHANGED <<storeVars, history, existing, cursor, pool, result, started, prior,
                   touched, otherVars>>

NextSeq == (\E day \in SeqDays : putDay(day[1], day[2])) \/ applySequences
SpecSeq == InitSeq /\ [][NextSeq]_vars

\* A day of PairDays is recorded on the date after the last one
putPairDay(day) ==
    /\ pc[1] = "idle"
    /\ IF history = <<>> THEN TRUE ELSE history[Len(history)].date < 7 + MaxPairDays
    /\ history' = history \o [i \in DOMAIN day |->
                       [day[i] EXCEPT !.date = IF history = <<>> THEN 8
                                              ELSE history[Len(history)].date + 1]]
    /\ UNCHANGED <<storeVars, pc, analysisVars, touched, otherVars>>

NextPair == (\E k \in DOMAIN PairDays : putPairDay(PairDays[k])) \/ applySequences
SpecPair == InitPure /\ [][NextPair]_vars

\* A day of IdDays is recorded on the date after the last one
putIdDay(day) ==
    /\ pc[1] = "idle"
    /\ IF history = <<>> THEN TRUE ELSE history[Len(history)].date < 7 + MaxIdDays
    /\ history' = history \o [i \in DOMAIN day |->
                       [day[i] EXCEPT !.date = IF history = <<>> THEN 8
                                              ELSE history[Len(history)].date + 1]]
    /\ UNCHANGED <<storeVars, pc, analysisVars, touched, otherVars>>

NextIds == (\E k \in DOMAIN IdDays : putIdDay(IdDays[k])) \/ applyPipeline
SpecIds == InitIds /\ [][NextIds]_vars

\* App.calculateDuration: an end before the start is on the next day
calculateDuration(startTime, endTime) ==
    LET startMinutes == timeToMinutes(startTime)
        endMinutes   == timeToMinutes(endTime)
    IN  (IF endMinutes < startMinutes THEN endMinutes + 24 * 60 ELSE endMinutes)
        - startMinutes

\* scheduled.status: 'pending' from DB.addScheduledTask until a handler
\* writes it
StatusOf(k) == IF k \in DOMAIN marked THEN marked[k] ELSE "pending"

\* App.openDetailModal: the instance is selected and the two buttons are
\* enabled or disabled by its status (lines 1714-1730)
openDetailModal(k) ==
    /\ k \in DOMAIN schedule
    /\ modal' = [selectedScheduledTask |-> k,
                 completeDisabled      |-> StatusOf(k) = "completed",
                 skipDisabled          |-> StatusOf(k) = "skipped"]
    /\ UNCHANGED <<storeVars, history, pc, analysisVars, touched, suggestions, segments,
                   lastSaved, marked, held, recorded>>

\* The entry markTaskComplete builds at lines 1786-1806 and 1817-1825
CompletionEntry(scheduled, actualStart, actualEnd) ==
    LET plannedEnd == addMinutesToTime(scheduled.startTime, scheduled.duration)
        used == /\ actualStart # NoTime
                /\ actualEnd # NoTime
                /\ actualStart # scheduled.startTime \/ actualEnd # plannedEnd
    IN  Entry(scheduled.taskId, scheduled.date,
              IF used THEN actualStart ELSE scheduled.startTime,
              IF used THEN actualEnd ELSE plannedEnd,
              scheduled.duration,
              IF used THEN calculateDuration(actualStart, actualEnd)
              ELSE scheduled.duration,
              "completed")

\* A handler starts when its button is pressed: the caller is not inside
\* another handler, an instance is selected, and the histories stay bounded
Pressed(p) ==
    /\ pc[p] \in {"idle", "done", "rejected"}
    /\ modal.selectedScheduledTask # 0
    /\ Len(history) + Cardinality({q \in Callers : held[q] # <<>> /\ pc[q] \in {"updating", "adding"}})
           < MaxMark

\* App.markTaskComplete from the click to its first await (lines 1777-1814):
\* the validation, then the status written on the instance
markCompleteBegin(p, actualStart, actualEnd) ==
    /\ Pressed(p)
    /\ ~modal.completeDisabled
    /\ IF /\ actualStart # NoTime
          /\ actualEnd # NoTime
          /\ calculateDuration(actualStart, actualEnd) <= 0
       THEN /\ pc' = [pc EXCEPT ![p] = "rejected"]
            /\ held' = [held EXCEPT ![p] = <<>>]
            /\ UNCHANGED marked
       ELSE /\ pc' = [pc EXCEPT ![p] = "updating"]
            /\ marked' = (modal.selectedScheduledTask :> "completed") @@ marked
            /\ held' = [held EXCEPT ![p] =
                           <<[scheduled |-> modal.selectedScheduledTask,
                              entry     |-> CompletionEntry(
                                                schedule[modal.selectedScheduledTask],
                                                actualStart, actualEnd)]>>]
    /\ UNCHANGED <<storeVars, history, analysisVars, touched, suggestions, segments,
                   lastSaved, modal, recorded>>

\* App.markTaskSkipped from the click to its first await (lines 1849-1855)
markSkippedBegin(p) ==
    /\ Pressed(p)
    /\ ~modal.skipDisabled
    /\ pc' = [pc EXCEPT ![p] = "updating"]
    /\ marked' = (modal.selectedScheduledTask :> "skipped") @@ marked
    /\ held' = [held EXCEPT ![p] =
                   <<[scheduled |-> modal.selectedScheduledTask,
                      entry     |-> SkippedEntry(
                                        schedule[modal.selectedScheduledTask].taskId,
                                        schedule[modal.selectedScheduledTask].date,
                                        schedule[modal.selectedScheduledTask].startTime,
                                        schedule[modal.selectedScheduledTask].duration)]>>]
    /\ UNCHANGED <<storeVars, history, analysisVars, touched, suggestions, segments,
                   lastSaved, modal, recorded>>

\* await DB.updateScheduledTask(scheduled) resolves; DB.addHistoryEntry is
\* called next
scheduledUpdated(p) ==
    /\ pc[p] = "updating"
    /\ pc' = [pc EXCEPT ![p] = "adding"]
    /\ UNCHANGED <<storeVars, history, analysisVars, touched, otherVars>>

\* The handler went on to refreshInsights() without its history write
historyAddedUnwritten(p) ==
    /\ pc[p] = "adding"
    /\ modal' = NoModal
    /\ pc' = [pc EXCEPT ![p] = "analyze"]
    /\ touched' = TRUE
    /\ UNCHANGED <<storeVars, history, analysisVars, suggestions, segments, lastSaved,
                   marked, held, recorded>>

\* await DB.addHistoryEntry(...) resolves: the entry is in the store, the
\* modal is closed and refreshInsights() is called (lines 1817-1846,
\* 1858-1870)
historyAdded(p) ==
    /\ pc[p] = "adding"
    /\ addHistoryEntry(held[p][1].entry)
    /\ recorded' = (held[p][1].scheduled :>
                        (IF held[p][1].scheduled \in DOMAIN recorded
                         THEN recorded[held[p][1].scheduled] + 1 ELSE 1))
                    @@ recorded
    /\ modal' = NoModal
    /\ pc' = [pc EXCEPT ![p] = "analyze"]
    /\ touched' = TRUE
    /\ UNCHANGED <<storeVars, analysisVars, suggestions, segments, lastSaved,
                   marked, held>>

\* The two handlers of the detail modal, pressed by the user at any moment,
\* on the first days of use: with fewer than MIN_HISTORY_FOR_PATTERNS
\* entries analyze() returns at its gate, in one step
NextMark ==
    \/ \E k \in DOMAIN schedule : openDetailModal(k)
    \/ \E p \in Callers, times \in ActualTimes : markCompleteBegin(p, times[1], times[2])
    \/ \E p \in Callers : markSkippedBegin(p)
    \/ \E p \in Callers : scheduledUpdated(p)
    \/ \E p \in Callers : historyAdded(p)
    \/ \E p \in Callers : analyzeLoad(p)

SpecMark == InitPure /\ [][NextMark]_vars

\* separateHistoryByPeriods(history, specialPeriods, periodCategories) on
\* its own
applySegmenter ==
    /\ pc[1] = "idle"
    /\ segments' = separateHistoryByPeriods(history, specialPeriods, periodCategories)
    /\ pc' = [pc EXCEPT ![1] = "segmented"]
    /\ UNCHANGED <<storeVars, history, analysisVars, touched, suggestions, lastSaved,
                   markVars>>

\* Histories in any order of dates, segmented by overlapping periods
NextSeg == (\E e \in SegEntries : putHistory(e, MaxSeg)) \/ applySegmenter
SpecSeg == InitSeg /\ [][NextSeg]_vars

\* DB.deleteTask: the task leaves the catalog, its history and patterns stay
deleteTask(taskId) ==
    /\ pc[1] \in {"idle", "persisted"}
    /\ HasTask(tasks, taskId)
    /\ tasks' = {t \in tasks : t.id # taskId}
    /\ UNCHANGED <<history, schedule, patterns, specialPeriods, periodCategories,
                   pc, analysisVars, touched, otherVars>>

\* The persist loop of analyze() run to its end
persistPatterns ==
    /\ pc[1] = "applied"
    /\ patterns' = SaveAll(patterns, computed[1])
    /\ lastSaved' = SaveAll(lastSaved, computed[1])
    /\ pc' = [pc EXCEPT ![1] = "persisted"]
    /\ UNCHANGED <<tasks, history, schedule, specialPeriods, periodCategories,
                   analysisVars, touched, suggestions, segments, markVars>>

\* Algorithm.generateRoutineSuggestion(dayOfWeek, this.tasks)
applyRoutineSuggestion(dayOfWeek) ==
    /\ pc[1] = "persisted"
    /\ suggestions' = [dayOfWeek |-> <<dayOfWeek>>,
                        list      |-> generateRoutineSuggestion(patterns, tasks, dayOfWeek)]
    /\ pc' = [pc EXCEPT ![1] = "suggested"]
    /\ UNCHANGED <<storeVars, history, analysisVars, touched, segments, lastSaved, markVars>>

\* Histories of two tasks analysed and persisted, the second task deleted
\* before or after, then a routine asked for
NextRoutine ==
    \/ putInOrder(RoutineKinds, MaxRoutine)
    \/ deleteTask("t2")
    \/ applyPipeline
    \/ persistPatterns
    \/ \E d \in SuggestDays : applyRoutineSuggestion(d)

SpecRoutine == Init /\ [][NextRoutine]_vars

\* Histories around a special period analysed and persisted, then a routine
\* asked for
NextPeriod ==
    \/ putInOrder(PeriodKinds, MaxPeriod)
    \/ applyPipeline
    \/ persistPatterns
    \/ \E d \in SuggestDays : applyRoutineSuggestion(d)

SpecPeriod == InitPeriod /\ [][NextPeriod]_vars

----------------------------------------------------------------------------
(* Properties                                                              *)

\* How many times x occurs in the array s
Occurrences(s, x) == Cardinality({i \in DOMAIN s : s[i] = x})

\* What the four pattern analyzers find in a history, in the order of allPatterns
RoutinePatterns(h, ts) ==
    analyzeTimePatterns(h, ts) \o analyzeDurationPatterns(h, ts)
    \o analyzeFrequencyPatterns(h, ts) \o analyzeSequencePatterns(h, ts)

\* C1: when analyze() returns on a history of fewer than 5 entries, whatever
\* their status or date, it returns exactly one insight, of type 'info', and
\* as patterns the patterns the store held when it was called; it has
\* computed no pattern, saved none, and the pattern store is as it found it.
GateReturnsStoredPatterns ==
    pc[1] = "done" /\ Len(history) < 5 =>
        /\ Len(result[1].insights) = 1
        /\ result[1].insights[1].type = "info"
        /\ result[1].patterns = getAllPatterns(started[1])
        /\ computed[1] = <<>>
        /\ cursor[1] = 0
        /\ patterns = started[1]

\* A gated analyze() has returned while the pattern store held patterns
GateOverStoredPatterns ==
    /\ pc[1] = "done"
    /\ Len(history) < 5
    /\ Len(history) > 0
    /\ started[1] # EmptyStore

\* C2: the insights returned hold at most 10 elements, in non-increasing
\* order of priority, all of them pooled, and no pooled insight that was
\* left out has a priority strictly greater than a returned one.
TopTenByPriority ==
    pc[1] = "applied" =>
        LET returned == result[1].insights
            pooled   == pool[1]
        IN  /\ Len(returned) <= 10
            /\ \A i \in 1..(Len(returned) - 1) :
                   ~FracLess(returned[i].priority, returned[i + 1].priority)
            /\ \A x \in Range(returned) :
                   Occurrences(returned, x) <= Occurrences(pooled, x)
            /\ \A x \in Range(pooled) :
                   Occurrences(returned, x) < Occurrences(pooled, x) =>
                       \A y \in Range(returned) : ~FracLess(y.priority, x.priority)

\* More than 10 insights of several priorities were pooled and cut to 10
PoolCutToTen ==
    /\ pc[1] = "applied"
    /\ Len(pool[1]) > 10
    /\ Len(result[1].insights) = 10
    /\ \E x, y \in Range(pool[1]) : FracLess(x.priority, y.priority)

\* C3: every pattern the time, duration, frequency and sequence analyzers
\* emit has a confidence between 0 and 1, and confidence does not decrease
\* with sampleSize: a pattern found in the history or in any shorter
\* history it extends has a confidence no greater than that of a pattern of
\* the same type with at least as many samples.
ConfidenceBoundedAndMonotone ==
    pc[1] = "applied" =>
        /\ \A q \in Range(computed[1]) :
               FracLeq(<<0, 1>>, q.confidence) /\ FracLeq(q.confidence, <<1, 1>>)
        /\ \A k \in 0..Len(history) :
               \A p \in Range(RoutinePatterns(Take(history, k), tasks)) :
                   \A q \in Range(computed[1]) :
                       p.type = q.type /\ p.sampleSize <= q.sampleSize =>
                           FracLeq(p.confidence, q.confidence)

\* Two patterns of one type, one below the cap and one more than a sample
\* past it
ConfidenceSaturated ==
    /\ pc[1] = "applied"
    /\ \E p, q \in Range(computed[1]) :
           /\ p.type = q.type
           /\ p.sampleSize < q.sampleSize
           /\ FracLess(p.confidence, <<1, 1>>)
           /\ FracEq(q.confidence, <<1, 1>>)
           /\ q.sampleSize > 10

\* C4: when a non-gated analyze() has returned, the pattern store holds
\* exactly the patterns that run computed from the current history, and the
\* patterns it returned are the whole persisted list; nothing an earlier run
\* saved and this run did not emit is left in the store.
StoreHoldsOnlyCurrentPatterns ==
    pc[1] = "done" /\ Len(history) >= 5 =>
        /\ getAllPatterns(patterns) = Range(computed[1])
        /\ Range(result[1].patterns) = getAllPatterns(patterns)

\* C5: an analyze() called right after another one, with no store written
\* in between, returns the same patterns and the same ordered insights as
\* the first and leaves the pattern store as the first left it.
AnalyzeTwiceSame ==
    pc[1] = "done" /\ prior.set =>
        /\ result[1].patterns = prior.result.patterns
        /\ result[1].insights = prior.result.insights
        /\ patterns = prior.patterns

\* A second, non-gated analyze() has returned patterns over an unchanged store
AnalyzedTwiceWithPatterns ==
    /\ pc[1] = "done"
    /\ prior.set
    /\ Len(history) >= 5
    /\ result[1].patterns # <<>>
    /\ patterns # EmptyStore

\* The date lies inside some configured special period
InsidePeriod(date) ==
    \E i \in DOMAIN specialPeriods :
        specialPeriods[i].startDate <= date /\ date <= specialPeriods[i].endDate

Untagged(p) == "periodCategory" \notin DOMAIN p

\* C6: in a non-gated analyze(), the patterns without a periodCategory tag
\* are exactly the time, duration, frequency and sequence patterns of the
\* history with every entry dated inside a special period removed.
PeriodEntriesExcluded ==
    pc[1] = "done" /\ Len(history) >= 5 =>
        SelectSeq(result[1].patterns, Untagged)
            = RoutinePatterns(SelectSeq(history, LAMBDA e : ~InsidePeriod(e.date)), tasks)

\* A non-gated analyze() has returned routine patterns and period patterns
\* for a history with entries inside and outside a special period
AnalyzedAcrossPeriod ==
    /\ pc[1] = "done"
    /\ Len(history) >= 5
    /\ \E i, j \in DOMAIN history :
           InsidePeriod(history[i].date) /\ ~InsidePeriod(history[j].date)
    /\ \E p, q \in Range(result[1].patterns) : Untagged(p) /\ ~Untagged(q)

\* The start times, in minutes, of the completed entries of a task
StartMinutesOf(taskId, h) ==
    LET mine == SelectSeq(h, LAMBDA e : e.taskId = taskId /\ e.status = "completed")
    IN  [i \in DOMAIN mine |-> timeToMinutes(mine[i].startTime)]

\* The population standard deviation of v is strictly below 60:
\* sum((v[i] - mean)^2) / n < 3600, with every term multiplied by n^2
SpreadBelowHour(v) ==
    LET n == Len(v)
        s == SumSeq(v)
    IN  SumSeq([i \in DOMAIN v |-> (n * v[i] - s) * (n * v[i] - s)]) < 3600 * n * n * n

\* C7: analyzeTimePatterns emits a 'time' pattern for a task if and only if
\* the task is in the catalog, has at least 3 completed entries, and the
\* population standard deviation of their start times in minutes is strictly
\* below 60; there is at most one, its sampleSize is the number of those
\* entries and its confidence is min(sampleSize / 10, 1).
TimePatternThreshold ==
    pc[1] = "applied" =>
        \A taskId \in {history[i].taskId : i \in DOMAIN history} \cup {t.id : t \in tasks} :
            LET v     == StartMinutesOf(taskId, history)
                found == SelectSeq(computed[1],
                                   LAMBDA p : p.type = "time" /\ p.taskId = taskId)
            IN  /\ Len(found) <= 1
                /\ Len(found) = 1 <=>
                       /\ \E t \in tasks : t.id = taskId
                       /\ Len(v) >= 3
                       /\ SpreadBelowHour(v)
                /\ Len(found) = 1 =>
                       /\ found[1].sampleSize = Len(v)
                       /\ FracEq(found[1].confidence,
                                 IF Len(v) > 10 THEN <<1, 1>> ELSE <<Len(v), 10>>)

\* A 'time' pattern over more than 10 samples that are not all equal
TimePatternSaturated ==
    /\ pc[1] = "applied"
    /\ \E p \in Range(computed[1]) :
           /\ p.type = "time"
           /\ p.sampleSize > 10
           /\ p.variance[1] > 0

\* The samples a 'time' or 'time_day' pattern averages
SamplesOf(p, h) ==
    StartMinutesOf(p.taskId,
                   IF p.type = "time" THEN h
                   ELSE SelectSeq(h, LAMBDA e : e.date % 7 = p.dayOfWeek))

\* C8: the averageTime of every 'time' or 'time_day' pattern is a
\* well-formed HH:MM, hours 00..23 and minutes 00..59, and the minute of the
\* day it denotes is within 1 minute of the arithmetic mean of the sampled
\* start times.
AverageTimeWellFormed ==
    pc[1] = "applied" =>
        \A p \in Range(computed[1]) :
            p.type \in {"time", "time_day"} =>
                LET hh == p.averageTime[1] * 10 + p.averageTime[2]
                    mm == p.averageTime[3] * 10 + p.averageTime[4]
                    v  == SamplesOf(p, history)
                    n  == Len(v)
                IN  /\ Len(p.averageTime) = 4
                    /\ hh \in 0..23
                    /\ mm \in 0..59
                    /\ n * (hh * 60 + mm) - SumSeq(v) \in (0 - n)..n

\* The entries the duration pattern of a task averages
MeasuredOf(taskId, h) ==
    SelectSeq(h, LAMBDA e : /\ e.taskId = taskId
                            /\ e.status = "completed"
                            /\ e.actualDuration # 0)

ActualSum(taskId, h) ==
    LET mine == MeasuredOf(taskId, h)
    IN  SumSeq([i \in DOMAIN mine |-> mine[i].actualDuration])

PlannedSum(taskId, h) ==
    LET mine == MeasuredOf(taskId, h)
    IN  SumSeq([i \in DOMAIN mine |-> mine[i].plannedDuration])

\* The pooled insights a duration pattern gave rise to
DurationInsightsFor(p, pooled) ==
    SelectSeq(pooled, LAMBDA i : /\ i.taskId = p.taskId
                                 /\ i.title \in {"Durata sottostimata",
                                                  "Durata sovrastimata"})

\* min(x / k, cap)
MinOfRatio(x, k, cap) == IF x > k * cap THEN <<cap, 1>> ELSE <<x, k>>

\* C9: a duration pattern with |percentDifference| > 20 and sampleSize >= 5
\* whose average actual duration exceeds its average planned duration (as
\* the pattern records them, hence also before rounding) gives
\* exactly one duration insight: 'optimization', actionable, with action
\* adjust_duration to averageActual and priority min(|percentDifference| / 10, 8);
\* a pattern with |percentDifference| <= 20 or sampleSize < 5 gives none.
UnderestimateReported ==
    pc[1] = "applied" =>
        \A p \in Range(computed[1]) :
            p.type = "duration" =>
                LET found == DurationInsightsFor(p, pool[1])
                IN  /\ (/\ Abs(p.percentDifference) > 20
                         /\ p.sampleSize >= 5
                         /\ p.averageActual > p.averagePlanned
                         /\ ActualSum(p.taskId, history) > PlannedSum(p.taskId, history))
                        => /\ Len(found) = 1
                           /\ found[1].type = "optimization"
                           /\ found[1].actionable
                           /\ found[1].action =
                                  [type              |-> "adjust_duration",
                                   suggestedDuration |-> p.averageActual]
                           /\ FracEq(found[1].priority,
                                     MinOfRatio(Abs(p.percentDifference), 10, 8))
                    /\ (Abs(p.percentDifference) <= 20 \/ p.sampleSize < 5)
                        => found = <<>>

\* C10: a duration pattern with |percentDifference| > 20, sampleSize >= 5
\* and an average actual duration more than 15 minutes below the average
\* planned one (as the pattern records them and before rounding) gives an overestimate insight that is informational: not
\* actionable, without action, with priority min(|percentDifference| / 15, 6).
OverestimateInformational ==
    pc[1] = "applied" =>
        \A p \in Range(computed[1]) :
            (/\ p.type = "duration"
             /\ Abs(p.percentDifference) > 20
             /\ p.sampleSize >= 5
             /\ p.averagePlanned - p.averageActual > 15
             /\ PlannedSum(p.taskId, history) - ActualSum(p.taskId, history)
                    > 15 * p.sampleSize)
            => \E i \in Range(DurationInsightsFor(p, pool[1])) :
                   /\ i.title = "Durata sovrastimata"
                   /\ ~i.actionable
                   /\ i.action = NoAction
                   /\ FracEq(i.priority, MinOfRatio(Abs(p.percentDifference), 15, 6))

\* The stored patterns of one type of one task
StoredOfType(type, taskId) ==
    {p \in getAllPatterns(patterns) : p.type = type /\ p.taskId = taskId}

\* The stored day-specific time patterns of one task on one weekday
StoredForDay(taskId, day) ==
    {p \in StoredOfType("time_day", taskId) : p.dayOfWeek = day}

\* C12: a suggestion for task T on weekday d takes its time from a stored
\* time_day pattern of exactly (T, d) when there is one, with 1.2 times the
\* confidence of the frequency pattern; otherwise from a general time
\* pattern of T, with the confidence unchanged and the habitual-time reason.
\* A time_day pattern of another weekday or task is never the source.
DaySpecificTimeFirst ==
    pc[1] = "suggested" =>
        \A i \in DOMAIN suggestions.list :
            LET s == suggestions.list[i]
                f == patterns["frequency_" \o s.taskId]
                onDay == StoredForDay(s.taskId, suggestions.dayOfWeek[1])
            IN  IF onDay # {}
                THEN /\ \E p \in onDay : s.suggestedTime = p.averageTime
                     /\ FracEq(s.confidence, <<12 * f.confidence[1], 10 * f.confidence[2]>>)
                     /\ s.reason = "Di solito lo fai"
                ELSE /\ \E p \in StoredOfType("time", s.taskId) :
                            s.suggestedTime = p.averageTime
                     /\ FracEq(s.confidence, f.confidence)
                     /\ s.reason = "Orario abituale"

\* One routine with a day-specific suggestion whose task has other times on
\* another weekday and in general, and with a fallback suggestion whose task
\* has a day-specific time on another weekday only
DaySpecificAndFallbackSuggested ==
    /\ pc[1] = "suggested"
    /\ \E i, j \in DOMAIN suggestions.list :
           LET s == suggestions.list[i]
               g == suggestions.list[j]
               d == suggestions.dayOfWeek[1]
           IN  /\ s.reason = "Di solito lo fai"
               /\ \E p \in StoredOfType("time_day", s.taskId) :
                      p.dayOfWeek # d /\ p.averageTime # s.suggestedTime
               /\ \E p \in StoredOfType("time", s.taskId) :
                      p.averageTime # s.suggestedTime
               /\ g.reason = "Orario abituale"
               /\ \E p \in StoredOfType("time_day", g.taskId) :
                      p.dayOfWeek # d /\ p.averageTime # g.suggestedTime

\* The share of a weekday among the preferred days of the stored frequency
\* pattern of a task, as a sequence of at most one fraction
StoredShare(taskId, day) ==
    IF "frequency_" \o taskId \notin DOMAIN patterns THEN <<>>
    ELSE LET prefs == patterns["frequency_" \o taskId].preferredDays
         IN  [k \in 1..Cardinality({j \in DOMAIN prefs : prefs[j].day = day}) |->
                 prefs[CHOOSE j \in DOMAIN prefs : prefs[j].day = day].percentage]

\* C13: task T is suggested for weekday d exactly when the store holds a
\* frequency pattern of T whose preferredDays has d with a share of 20 or
\* more, T is in the catalog, and a time_day pattern of (T, d) or a general
\* time pattern of T is stored; no task is suggested twice.
SuggestedIffTypicalAndTimed ==
    pc[1] = "suggested" =>
        \A taskId \in {"t1", "t2"} :
            LET d     == suggestions.dayOfWeek[1]
                mine  == {i \in DOMAIN suggestions.list : suggestions.list[i].taskId = taskId}
                share == StoredShare(taskId, d)
            IN  /\ Cardinality(mine) <= 1
                /\ mine # {} <=>
                       /\ share # <<>>
                       /\ FracLeq(<<20, 1>>, share[1])
                       /\ \E t \in tasks : t.id = taskId
                       /\ \/ StoredForDay(taskId, d) # {}
                          \/ StoredOfType("time", taskId) # {}

\* A routine that suggests one task and leaves out the other, which is in
\* the catalog with a stored time pattern and a share of the weekday under 20
TypicalTaskSuggestedRareOneNot ==
    /\ pc[1] = "suggested"
    /\ Len(suggestions.list) = 1
    /\ \E t \in tasks :
           /\ t.id # suggestions.list[1].taskId
           /\ StoredShare(t.id, suggestions.dayOfWeek[1]) # <<>>
           /\ FracLess(StoredShare(t.id, suggestions.dayOfWeek[1])[1], <<20, 1>>)
           /\ StoredOfType("time", t.id) # {}

\* An "HH:MM" string as a number that grows as the string does
ClockNumber(time) == 1000 * time[1] + 100 * time[2] + 10 * time[3] + time[4]

\* C14: the returned list is in ascending order of suggestedTime, and
\* suggestions with the same suggestedTime are in non-increasing order of
\* confidence.
SuggestionsByTimeThenConfidence ==
    pc[1] = "suggested" =>
        \A i, j \in DOMAIN suggestions.list :
            i < j =>
                LET a == suggestions.list[i]
                    b == suggestions.list[j]
                IN  /\ ClockNumber(a.suggestedTime) <= ClockNumber(b.suggestedTime)
                    /\ a.suggestedTime = b.suggestedTime =>
                           FracLeq(b.confidence, a.confidence)

\* Two suggestions for the same time, the task later in key order first
\* because its confidence is the higher one
TieBrokenByConfidence ==
    /\ pc[1] = "suggested"
    /\ Len(suggestions.list) = 2
    /\ suggestions.list[1].taskId = "t2"
    /\ suggestions.list[1].suggestedTime = suggestions.list[2].suggestedTime
    /\ FracLess(suggestions.list[2].confidence, suggestions.list[1].confidence)

\* C19: every routine suggestion has a confidence from 0 to 1, the
\* day-specific ones of a saturated frequency pattern included.
SuggestionConfidenceWithinUnit ==
    pc[1] = "suggested" =>
        \A i \in DOMAIN suggestions.list :
            /\ FracLeq(<<0, 1>>, suggestions.list[i].confidence)
            /\ FracLeq(suggestions.list[i].confidence, <<1, 1>>)

\* The task ids of history entries that are not in the catalog
UnknownTaskIds == {history[i].taskId : i \in DOMAIN history} \ {t.id : t \in tasks}

\* A pattern or insight that names the task
Names(record, taskId) ==
    \/ "taskId" \in DOMAIN record /\ record.taskId = taskId
    \/ "fromTaskId" \in DOMAIN record /\ record.fromTaskId = taskId
    \/ "toTaskId" \in DOMAIN record /\ record.toTaskId = taskId
    \/ "action" \in DOMAIN record /\ record.action.type = "suggest_sequence"
           /\ taskId \in {record.action.fromTaskId, record.action.toTaskId}

\* C16: with history entries of a task that is not in the catalog the
\* analysis still runs to its end, and it gives no pattern, no insight and
\* no routine suggestion that names the task; a sequence pattern needs both
\* of its tasks in the catalog.
UnknownTasksSkipped ==
    /\ pc[1] = "applied" =>
           \A taskId \in UnknownTaskIds :
               /\ \A p \in Range(computed[1]) : ~Names(p, taskId)
               /\ \A n \in Range(pool[1]) : ~Names(n, taskId)
    /\ pc[1] = "suggested" =>
           \A taskId \in UnknownTaskIds :
               \A i \in DOMAIN suggestions.list : suggestions.list[i].taskId # taskId

\* An analysis with patterns over a history in which a deleted task was
\* done four times in a row on one day
AnalyzedWithDeletedTask ==
    /\ pc[1] = "applied"
    /\ computed[1] # <<>>
    /\ "t2" \in UnknownTaskIds
    /\ Cardinality({i \in DOMAIN history : history[i] = TueLater}) >= 4

\* How often the history, kept in order of date and start time, goes from
\* one task to another within a day
TimesFollowed(from, to) ==
    Cardinality({i \in 1..(Len(history) - 1) :
                    /\ history[i].taskId = from
                    /\ history[i + 1].taskId = to
                    /\ history[i].date = history[i + 1].date})

\* The transitions between tasks of the catalog seen three times or more
Qualifying ==
    {pair \in {t.id : t \in tasks} \X {t.id : t \in tasks} :
        TimesFollowed(pair[1], pair[2]) >= 3}

\* C11: analyzeSequencePatterns returns the qualifying transitions, each
\* once and with its count, in non-increasing order of count and twenty at
\* most: min(N, 20) of N, and none left out has a count strictly greater
\* than one returned.
TopTwentySequences ==
    pc[1] = "applied" =>
        LET found    == computed[1]
            returned == {<<found[i].fromTaskId, found[i].toTaskId>> : i \in DOMAIN found}
        IN  /\ Len(found) = IF Cardinality(Qualifying) < 20
                             THEN Cardinality(Qualifying) ELSE 20
            /\ Cardinality(returned) = Len(found)
            /\ returned \subseteq Qualifying
            /\ \A i \in DOMAIN found :
                   found[i].count = TimesFollowed(found[i].fromTaskId, found[i].toTaskId)
            /\ \A i, j \in DOMAIN found : i < j => found[i].count >= found[j].count
            /\ \A pair \in Qualifying \ returned :
                   \A i \in DOMAIN found :
                       TimesFollowed(pair[1], pair[2]) <= found[i].count

\* More than twenty qualifying transitions of two different counts, the
\* first one seen being among the less frequent
SequencesCutToTwenty ==
    /\ pc[1] = "applied"
    /\ Cardinality(Qualifying) > 20
    /\ Len(computed[1]) = 20
    /\ computed[1][1].count > computed[1][20].count
    /\ TimesFollowed(history[1].taskId, history[2].taskId) < computed[1][1].count

\* The ids of the patterns a call saved before it stopped
SavedIds(p) == {computed[p][k].id : k \in 1..cursor[p]}

\* C15: when a savePattern of the persist loop fails, analyze() rejects
\* without another save: the patterns saved before the failure are in the
\* store as this run computed them, and every other record of the store,
\* the one whose save failed included, is as it was before the run.
FailedSaveKeepsEarlierWrites ==
    pc[1] = "failed" =>
        /\ cursor[1] < Len(computed[1])
        /\ DOMAIN patterns = DOMAIN started[1] \cup SavedIds(1)
        /\ \A k \in 1..cursor[1] : patterns[computed[1][k].id] = computed[1][k]
        /\ \A id \in DOMAIN patterns \ SavedIds(1) : patterns[id] = started[1][id]

\* A run that failed after its first save, on a pattern the store holds with
\* another value from an earlier run
FailedBetweenSaves ==
    /\ pc[1] = "failed"
    /\ cursor[1] > 0
    /\ computed[1][cursor[1] + 1].id \in DOMAIN started[1]
    /\ started[1][computed[1][cursor[1] + 1].id] # computed[1][cursor[1] + 1]
    /\ \E k \in 1..cursor[1] :
           /\ computed[1][k].id \in DOMAIN started[1]
           /\ started[1][computed[1][k].id] # computed[1][k]

\* C17: the steps of analyze() leave the tasks, the history, the schedule
\* and the settings as they are (the pattern store is all they may write),
\* and the step that runs generateRoutineSuggestion() leaves every store as
\* it is.
AnalysisWritesOnlyPatterns ==
    [][/\ pc[1] \in {"analyze", "saving"} =>
              UNCHANGED <<tasks, history, schedule, specialPeriods, periodCategories>>
       /\ suggestions' # suggestions =>
              UNCHANGED <<tasks, history, schedule, patterns, specialPeriods,
                          periodCategories>>]_vars

\* A routine with suggestions was produced from the patterns that the steps
\* of analyze() stored
SuggestedFromStoredPatterns ==
    /\ pc[1] = "confirm"
    /\ suggestions.list # <<>>
    /\ patterns # EmptyStore
    /\ patterns = lastSaved
    /\ Len(history) >= 5

\* C18: two analyze() calls that overlap do not hold each other up: a call
\* in its persist loop can always take its next save or return, whatever the
\* other call is doing.  Once both have returned, every pattern id that was saved holds
\* the record of the savePattern call on that id that ran last.
OverlappingCallsLastWriteWins ==
    /\ \A p \in Callers : pc[p] = "saving" => ENABLED (analyzeSave(p) \/ analyzeReturn(p))
    /\ pc[1] = "done" /\ pc[2] = "done" =>
           \A id \in DOMAIN lastSaved :
               id \in DOMAIN patterns /\ patterns[id] = lastSaved[id]

\* Both calls have returned after saving different records under one id, and
\* the store holds the record of the call that started first
OlderCallWroteLast ==
    /\ pc[1] = "done" /\ pc[2] = "done"
    /\ Len(computed[1]) > 0 /\ Len(computed[2]) > 0
    /\ cursor[1] = Len(computed[1]) /\ cursor[2] = Len(computed[2])
    /\ \E i \in DOMAIN computed[1] : \E j \in DOMAIN computed[2] :
           /\ computed[1][i].id = computed[2][j].id
           /\ computed[1][i].sampleSize < computed[2][j].sampleSize
           /\ patterns[computed[1][i].id] = computed[1][i]

\* The category of the first period, in list order, that contains the date
FirstCategory(date) ==
    LET first == CHOOSE i \in DOMAIN specialPeriods :
                     /\ specialPeriods[i].startDate <= date
                     /\ date <= specialPeriods[i].endDate
                     /\ \A j \in 1..(i - 1) :
                            ~(specialPeriods[j].startDate <= date
                              /\ date <= specialPeriods[j].endDate)
    IN  specialPeriods[first].categoryId

\* C20: the segmenter partitions the history: normalHistory is the entries
\* dated in no period and periodHistory those dated in some period, bounds
\* included, both in the order of the history; the lists of periodBreakdown
\* are non-empty, have different categories and contain, in the same order,
\* exactly the period entries whose first matching period has that category.
SegmenterPartitions ==
    pc[1] = "segmented" =>
        LET buckets == segments.periodBreakdown
        IN  /\ segments.normalHistory =
                   SelectSeq(history, LAMBDA e : ~InsidePeriod(e.date))
            /\ segments.periodHistory =
                   SelectSeq(history, LAMBDA e : InsidePeriod(e.date))
            /\ \A k \in DOMAIN buckets :
                   /\ buckets[k].entries # <<>>
                   /\ buckets[k].entries =
                          SelectSeq(history,
                                    LAMBDA e : /\ InsidePeriod(e.date)
                                               /\ FirstCategory(e.date) = buckets[k].categoryId)
                   /\ \A m \in DOMAIN buckets :
                          m # k => buckets[m].categoryId # buckets[k].categoryId
            /\ SumSeq([k \in DOMAIN buckets |-> Len(buckets[k].entries)])
                   = Len(segments.periodHistory)

\* A history out of date order with entries outside the periods, an entry in
\* two periods of different categories under the first one's category, and a
\* second list in the breakdown
SegmentedAcrossOverlap ==
    /\ pc[1] = "segmented"
    /\ segments.normalHistory # <<>>
    /\ Len(segments.periodBreakdown) = 2
    /\ \E i, j \in DOMAIN history : i < j /\ history[i].date > history[j].date
    /\ \E e \in Range(segments.periodHistory) :
           \E i, j \in DOMAIN specialPeriods :
               /\ i < j
               /\ specialPeriods[i].categoryId # specialPeriods[j].categoryId
               /\ specialPeriods[i].startDate <= e.date /\ e.date <= specialPeriods[i].endDate
               /\ specialPeriods[j].startDate <= e.date /\ e.date <= specialPeriods[j].endDate
               /\ \E k \in DOMAIN segments.periodBreakdown :
                      /\ segments.periodBreakdown[k].categoryId = specialPeriods[i].categoryId
                      /\ e \in Range(segments.periodBreakdown[k].entries)

\* The start minutes of the completed entries of a task on a weekday
DayMinutesOf(taskId, day, h) ==
    StartMinutesOf(taskId, SelectSeq(h, LAMBDA e : e.date % 7 = day))

\* The population standard deviation of v is strictly below 45:
\* sum((v[i] - mean)^2) / n < 2025, with every term multiplied by n^2
SpreadBelowThreeQuarters(v) ==
    LET n == Len(v)
        s == SumSeq(v)
    IN  SumSeq([i \in DOMAIN v |-> (n * v[i] - s) * (n * v[i] - s)]) < 2025 * n * n * n

\* C21: for a catalog task with at least 3 completed entries,
\* analyzeTimePatterns emits a 'time_day' pattern for a weekday if and only
\* if the task has at least 2 completed entries on that weekday whose start
\* times have a population standard deviation strictly below 45 minutes;
\* there is at most one per task and weekday, its confidence is
\* min(n / 5, 1) over the n samples of the weekday, and it does not depend
\* on the general 'time' pattern of the task.
DayPatternThreshold ==
    pc[1] = "applied" =>
        \A t \in tasks :
            Len(StartMinutesOf(t.id, history)) >= 3 =>
                \A day \in 0..6 :
                    LET v     == DayMinutesOf(t.id, day, history)
                        found == SelectSeq(computed[1],
                                           LAMBDA p : /\ p.type = "time_day"
                                                      /\ p.taskId = t.id
                                                      /\ p.dayOfWeek = day)
                    IN  /\ Len(found) <= 1
                        /\ Len(found) = 1 <=>
                               Len(v) >= 2 /\ SpreadBelowThreeQuarters(v)
                        /\ Len(found) = 1 =>
                               /\ found[1].sampleSize = Len(v)
                               /\ FracEq(found[1].confidence,
                                         IF Len(v) > 5 THEN <<1, 1>> ELSE <<Len(v), 5>>)

\* A task with a day-specific pattern over exactly two samples and no
\* general pattern, and with two samples of another weekday whose standard
\* deviation is exactly 45
DayPatternWithoutGeneral ==
    /\ pc[1] = "applied"
    /\ \E p \in Range(computed[1]) : p.type = "time_day" /\ p.sampleSize = 2
    /\ \A p \in Range(computed[1]) : p.type # "time"
    /\ DayMinutesOf("t1", 1, history) = <<540, 630>>

\* C22: analyzeFrequencyPatterns returns no pattern for a history with fewer
\* than 2 distinct dates, whatever the number of its entries; for any other
\* history the day span behind the weekly rate is at least 1.
FrequencyNeedsTwoDates ==
    pc[1] = "applied" =>
        IF Cardinality({history[i].date : i \in DOMAIN history}) < 2
        THEN \A p \in Range(computed[1]) : p.type # "frequency"
        ELSE totalDays(history) >= 1

\* Minutes since midnight of a clock time, read off its digits
ClockMinutes(time) == 60 * (10 * time[1] + time[2]) + 10 * time[3] + time[4]

\* Entry i of the history comes before entry j in the order of date, then
\* start time (a missing one first), then recording
Ahead(i, j) ==
    LET at(k) == IF history[k].startTime = NoTime THEN -1
                 ELSE ClockMinutes(history[k].startTime)
    IN  \/ history[i].date < history[j].date
        \/ /\ history[i].date = history[j].date
           /\ \/ at(i) < at(j)
              \/ at(i) = at(j) /\ i < j

DonePositions == {i \in DOMAIN history : history[i].status = "completed"}

\* The pairs of completed entries of one date, the first immediately before
\* the second among the completed entries, of tasks from and to
PairsOf(from, to) ==
    {pair \in DonePositions \X DonePositions :
        /\ history[pair[1]].taskId = from
        /\ history[pair[2]].taskId = to
        /\ history[pair[1]].date = history[pair[2]].date
        /\ Ahead(pair[1], pair[2])
        /\ \A k \in DonePositions : ~(Ahead(pair[1], k) /\ Ahead(k, pair[2]))}

\* The gaps of those pairs that are known and in 0..239, as a bag of
\* <<pair, gap>>
ValidGapsOf(from, to) ==
    {pg \in PairsOf(from, to) \X (0..239) :
        /\ history[pg[1][1]].endTime # NoTime
        /\ history[pg[1][2]].startTime # NoTime
        /\ pg[2] = ClockMinutes(history[pg[1][2]].startTime)
                      - ClockMinutes(history[pg[1][1]].endTime)}

SequencesFound(from, to) ==
    SelectSeq(computed[1], LAMBDA p : /\ p.type = "sequence"
                                      /\ p.fromTaskId = from
                                      /\ p.toTaskId = to)

\* C23: the count of a sequence pattern is the number of consecutive
\* completed pairs of one date with the first task immediately before the
\* second (skipped entries neither count nor break adjacency, pairs across
\* dates never count, a pair counts with or without a gap); it has an
\* average gap only if some pair has both times known and a gap in 0..239;
\* the pattern is there exactly when the count is at least 3 and both
\* tasks are in the catalog, with confidence min(count / 10, 1).
SequenceCountsPairs ==
    pc[1] = "applied" =>
        \A from, to \in {history[i].taskId : i \in DOMAIN history} :
            LET n     == Cardinality(PairsOf(from, to))
                found == SequencesFound(from, to)
            IN  /\ Len(found) <= 1
                /\ Len(found) = 1 <=>
                       /\ n >= 3
                       /\ \E t \in tasks : t.id = from
                       /\ \E t \in tasks : t.id = to
                /\ Len(found) = 1 =>
                       /\ found[1].count = n
                       /\ FracEq(found[1].confidence,
                                 IF n > 10 THEN <<1, 1>> ELSE <<n, 10>>)
                       /\ found[1].averageGap # <<>> => ValidGapsOf(from, to) # {}

\* A transition seen three times with a skipped entry in between, one seen
\* more than ten times, and one towards a task that is not in the catalog
\* seen three times
SequencesOverSkipsAndDates ==
    /\ pc[1] = "applied"
    /\ \E p \in Range(computed[1]) : p.count = 3 /\ p.averageGap # <<>>
    /\ \E p \in Range(computed[1]) : p.count > 10
    /\ Cardinality(PairsOf("t1", "tx")) >= 3
    /\ \E i \in DOMAIN history : history[i].status = "skipped"

RECURSIVE SumOfGaps(_)
SumOfGaps(pgs) ==
    IF pgs = {} THEN 0
    ELSE LET pg == CHOOSE x \in pgs : TRUE IN pg[2] + SumOfGaps(pgs \ {pg})

\* C24: the averageGap of a sequence pattern is null exactly when no valid
\* gap was collected for its pair; with one valid gap or more, all of them 0
\* included, it is the rounded mean of the valid gaps, a number in 0..239.
AverageGapIsRoundedMean ==
    pc[1] = "applied" =>
        \A p \in Range(computed[1]) :
            LET gaps == ValidGapsOf(p.fromTaskId, p.toTaskId)
            IN  IF gaps = {} THEN p.averageGap = <<>>
                ELSE /\ p.averageGap =
                            <<MathRound(SumOfGaps(gaps), Cardinality(gaps))>>
                     /\ p.averageGap[1] \in 0..239

\* The start times, in minutes, of the completed entries of a task that
\* carry one
KnownStartsOf(taskId) ==
    LET mine == SelectSeq(history, LAMBDA e : /\ e.taskId = taskId
                                              /\ e.status = "completed"
                                              /\ e.startTime # NoTime)
    IN  [i \in DOMAIN mine |-> ClockMinutes(mine[i].startTime)]

\* C25: an entry lacking an optional field contributes no sample to the
\* analyzer that needs the field: the duration pattern of a task counts the
\* completed entries that carry actualDuration, a sequence pattern has a
\* gap only from pairs with both times known, and the time pattern of a
\* task is there, with its mean, standard deviation test and sampleSize,
\* for the completed entries that carry startTime and for no others.
MissingFieldsGiveNoSample ==
    pc[1] = "applied" =>
        \A t \in tasks :
            LET v == KnownStartsOf(t.id)
                general == SelectSeq(computed[1],
                               LAMBDA p : p.type = "time" /\ p.taskId = t.id)
                lasting == SelectSeq(computed[1],
                               LAMBDA p : p.type = "duration" /\ p.taskId = t.id)
                timed   == SelectSeq(history,
                               LAMBDA e : /\ e.taskId = t.id
                                          /\ e.status = "completed"
                                          /\ e.actualDuration # 0)
            IN  /\ Len(lasting) = 1 <=> Len(timed) >= 3
                /\ Len(lasting) = 1 => lasting[1].sampleSize = Len(timed)
                /\ Len(general) = 1 <=> Len(v) >= 3 /\ SpreadBelowHour(v)
                /\ Len(general) = 1 =>
                       /\ general[1].sampleSize = Len(v)
                       /\ general[1].averageTime = minutesToTime(SumSeq(v), Len(v))
                /\ \A p \in Range(computed[1]) :
                       (p.type = "sequence" /\ p.averageGap # <<>>)
                           => ValidGapsOf(p.fromTaskId, p.toTaskId) # {}

\* C26: among the patterns one analyze() run computes, no two have the same
\* id (they differ in type, task, weekday, transition pair or period
\* category), and the counter of a transition pair counts that pair only.
PatternIdsDistinct ==
    pc[1] = "applied" =>
        /\ \A i, j \in DOMAIN computed[1] :
               i # j => computed[1][i].id # computed[1][j].id
        /\ specialPeriods = <<>> =>
               \A p \in Range(computed[1]) :
                   p.type = "sequence" =>
                       p.count = Cardinality(PairsOf(p.fromTaskId, p.toTaskId))

\* The entry a handler holds has the fields of its kind, taken from the
\* instance it was pressed on
EntryOfItsKind(h) ==
    /\ h.entry.taskId = schedule[h.scheduled].taskId
    /\ h.entry.date = schedule[h.scheduled].date
    /\ h.entry.plannedDuration = schedule[h.scheduled].duration
    /\ h.entry.startTime # NoTime
    /\ IF h.entry.status = "completed"
       THEN h.entry.endTime # NoTime /\ h.entry.actualDuration > 0
       ELSE /\ h.entry.status = "skipped"
            /\ h.entry.endTime = NoTime
            /\ h.entry.actualDuration = 0

AnalysisFollowsRecordStep ==
    /\ \A p \in Callers :
           \* a handler past its validation holds an entry with the status it
           \* writes on the instance
           /\ (pc[p] # "updating" /\ pc'[p] = "updating") =>
                  /\ held'[p] # <<>>
                  /\ held'[p][1].entry.status = marked'[held'[p][1].scheduled]
                  /\ EntryOfItsKind(held'[p][1])
                  /\ history' = history
           \* it goes on to the history write and to nothing else
           /\ (pc[p] = "updating" /\ pc'[p] # "updating") =>
                  pc'[p] = "adding" /\ history' = history
           /\ (pc[p] = "adding" /\ pc'[p] # "adding") => pc'[p] = "analyze"
           \* analyze() is invoked with the write of that entry behind it
           /\ (pc[p] # "analyze" /\ pc'[p] = "analyze") =>
                  history' = Append(history, held[p][1].entry)
           \* and reads a history that contains it
           /\ (pc[p] = "analyze" /\ pc'[p] # "analyze") =>
                  /\ \E i \in DOMAIN history : history[i] = held[p][1].entry
                  /\ pc'[p] = "done"
                  /\ history' = history
           \* a rejected markTaskComplete writes nothing and analyses nothing
           /\ (pc[p] # "rejected" /\ pc'[p] = "rejected") =>
                  history' = history /\ marked' = marked
           /\ (pc[p] = "rejected" /\ pc'[p] # "rejected") =>
                  pc'[p] \in {"updating", "rejected"}
    \* nothing else writes the history
    /\ history' # history =>
           \E p \in Callers : pc[p] = "adding" /\ pc'[p] = "analyze"

\* C27: every markTaskComplete that passes its validation and every
\* markTaskSkipped appends one history entry of the matching status
\* (completed: startTime, endTime, plannedDuration, actualDuration; skipped:
\* no endTime, no actualDuration) and invokes analyze() only after that
\* write, so the analysis reads a history with the new entry; a
\* markTaskComplete rejected for a non-positive duration appends nothing
\* and triggers no analysis.
AnalysisFollowsRecord == [][AnalysisFollowsRecordStep]_vars

\* One handler has recorded a completion with the times the user entered
\* and its analysis has returned, a skip is recorded too, and another
\* markTaskComplete was rejected
RecordedAnalysedAndRejected ==
    \E p, q \in Callers :
        /\ pc[p] = "done"
        /\ held[p] # <<>>
        /\ held[p][1].entry.status = "completed"
        /\ held[p][1].entry.startTime = T(9, 10)
        /\ \E i \in DOMAIN history : history[i] = held[p][1].entry
        /\ \E i \in DOMAIN history : history[i].status = "skipped"
        /\ pc[q] = "rejected"

\* C28: the suggestedTime of every suggestion is the averageTime of a stored
\* 'time' or 'time_day' pattern of the task that carries no periodCategory;
\* a pattern of a special period never gives a suggestion its time, a task
\* without a normal-routine time pattern included.
SuggestedTimeFromNormalRoutine ==
    pc[1] = "suggested" =>
        \A i \in DOMAIN suggestions.list :
            \E p \in getAllPatterns(patterns) :
                /\ p.type \in {"time", "time_day"}
                /\ p.taskId = suggestions.list[i].taskId
                /\ Untagged(p)
                /\ p.averageTime = suggestions.list[i].suggestedTime

\* C29: when two analyze() calls overlap with a history entry appended
\* between their reads, then, both calls finished, every pattern id written
\* by both holds the record computed from the longer history: the call that
\* read the shorter history never overwrites the other's record.
FresherRunWins ==
    (pc[1] = "done" /\ pc[2] = "done") =>
        \A p, q \in Callers :
            \A i \in DOMAIN computed[p] : \A j \in DOMAIN computed[q] :
                (/\ computed[p][i].id = computed[q][j].id
                 /\ computed[p][i].sampleSize < computed[q][j].sampleSize)
                    => patterns[computed[q][j].id] = computed[q][j]

\* C30: over any sequence and interleaving of markTaskComplete and
\* markTaskSkipped, a second invocation during the store write of the first
\* and a skip of a completed instance included, each scheduled instance has
\* at most one history entry written for it.
OneEntryPerInstance == \A k \in DOMAIN recorded : recorded[k] <= 1

====
